---- MODULE Spec2Model ----
(***************************************************************************)
(* Resolution -> Materialization pipeline of animehub, with its            *)
(* synchronous event bus.                                                  *)
(*                                                                         *)
(* The services are modelled as functions over a "world" record W that     *)
(* holds every store the services touch (catalog tables, ledger, the       *)
(* idempotency set, the bus registry and log).  A service call is split    *)
(* into the steps between which another thread can run; the sequential     *)
(* specifications run a call to its end inside one action, the concurrent  *)
(* ones interleave the steps of several threads.                           *)
(***************************************************************************)
EXTENDS Integers, Sequences, FiniteSets, TLC

VARIABLES
    animes,                 \* table anime            (AnimeRepository)
    episodes,               \* table episodes         (EpisodeRepository)
    episode_files,          \* table episode_files    (link_file)
    files,                  \* table files            (FileRepository)
    ledger,                 \* materialization records (MaterializationRepository)
    resolved_fingerprints,  \* ResolutionService.resolved_fingerprints
    handlers,               \* EventBus.handlers: event type -> handlers in order
    event_log,              \* EventBus.event_log
    next_id,                \* source of fresh ids (Uuid::new_v4)
    emitted,                \* history: payload of every emit, in order
    trace,                  \* history: every handler invocation, in order
    calls,                  \* history: one summary per top-level call
    threads                 \* per-thread position and locals (concurrent specs)

vars == <<animes, episodes, episode_files, files, ledger, resolved_fingerprints,
          handlers, event_log, next_id, emitted, trace, calls, threads>>

-----------------------------------------------------------------------------
(* Bounds of the model *)

\* top-level service calls in one behaviour of the sequential specifications
MaxOps == 2

\* Option::None for ids (real ids are >= 1)
None == 0

-----------------------------------------------------------------------------
(* Strings: the conversions the code applies, on the strings of the model *)

\* str::to_lowercase
to_lowercase(s) ==
    CASE s = "Steins Gate" -> "steins gate"
      [] s = "STEINS GATE" -> "steins gate"
      [] s = "Steins;Gate" -> "steins;gate"
      [] s = "AB"          -> "ab"
      [] s = "OVA"         -> "ova"
      [] OTHER             -> s

\* ResolutionRules::normalize_title: lower-case, punctuation to blanks,
\* whitespace collapsed
normalize_title(s) ==
    CASE s = "Steins Gate" -> "steins gate"
      [] s = "STEINS GATE" -> "steins gate"
      [] s = "Steins;Gate" -> "steins gate"
      [] s = "steins gate" -> "steins gate"
      [] s = "AB"          -> "ab"
      [] s = " "           -> ""
      [] OTHER             -> s

\* str::len (bytes); "\\u{9032}\\u{6483}" stands for the Rust literal of that
\* spelling, a title of two characters of three bytes each
str_len(s) ==
    CASE s = "" -> 0
      [] s = " " -> 1
      [] s = "AB" -> 2
      [] s = "ab" -> 2
      [] s = "ab1" -> 3
      [] s = "\\u{9032}\\u{6483}" -> 6
      [] OTHER -> 11

\* s.trim().is_empty()
trim_is_empty(s) == s \in {"", " "}

\* position of a title under ORDER BY titulo_principal (byte order)
title_rank(s) ==
    CASE s = " "           -> 0
      [] s = "AB"          -> 1
      [] s = "STEINS GATE" -> 2
      [] s = "Steins Gate" -> 3
      [] s = "Steins;Gate" -> 4
      [] s = "ab"          -> 5
      [] s = "ab1"         -> 6
      [] s = "steins gate" -> 7
      [] OTHER             -> 8

\* str::parse::<u32>, -1 for Err
parse_u32(s) ==
    CASE s = "1" -> 1
      [] s = "2" -> 2
      [] s = "3" -> 3
      [] s = "12" -> 12
      [] OTHER -> -1

\* the part before the first '-' (split_once), "" when there is no '-'
split_once_dash(s) ==
    CASE s = "1-3" -> "1"
      [] OTHER -> ""

Regular(n) == [kind |-> "regular", numero |-> n]
Special(l) == [kind |-> "special", label |-> l]

\* Display of an episode number: the number in decimal, or the label
number_to_string(num) ==
    IF num.kind = "regular" THEN ToString(num.numero) ELSE num.label

\* MaterializationService::parse_episode_number
parse_episode_number(number_str) ==
    IF parse_u32(number_str) >= 0 THEN Regular(parse_u32(number_str))
    ELSE IF split_once_dash(number_str) # "" /\ parse_u32(split_once_dash(number_str)) >= 0
         THEN Regular(parse_u32(split_once_dash(number_str)))
    ELSE Special(number_str)

-----------------------------------------------------------------------------
(* The world record and repository calls *)

RepoOps == {"ledger.exists", "ledger.save",
            "anime.get_by_id", "anime.list_all", "anime.save",
            "episode.get_by_id", "episode.list_by_anime", "episode.save",
            "episode.link_file", "file.get_by_id", "file.list_unlinked"}

NoFault == <<"none", 0>>

\* The stores as one record, for the duration of one top-level call.  fault
\* names the repository call that returns Err in this call (the n-th call of
\* a method), ncalls counts the calls made so far, results collects what the
\* materialization calls made during this call returned, unwinding is set
\* when a panic leaves emit.
World(fault) ==
    [animes |-> animes, episodes |-> episodes, episode_files |-> episode_files,
     files |-> files, ledger |-> ledger,
     resolved_fingerprints |-> resolved_fingerprints,
     handlers |-> handlers, event_log |-> event_log, next_id |-> next_id,
     emitted |-> emitted, trace |-> trace,
     fault |-> fault, ncalls |-> [op \in RepoOps |-> 0], results |-> <<>>,
     unwinding |-> FALSE]

\* one repository call: counted, and failing when it is the faulty one
RepoCall(W, op) ==
    [w |-> [W EXCEPT !.ncalls[op] = @ + 1],
     failed |-> (W.fault = <<op, W.ncalls[op] + 1>>)]

Min(S) == CHOOSE x \in S : \A y \in S : x <= y

\* the element of a one-element set: The({e(r) : r \in {v}}) is e of the
\* value v, computed once and named r (a `let r = v;` of the code)
The(S) == CHOOSE x \in S : TRUE

RECURSIVE SetToSortedSeq(_, _)
\* the rows of a table in the order given by the key function (ORDER BY)
SetToSortedSeq(S, key) ==
    IF S = {} THEN <<>>
    ELSE LET k == Min({key[x] : x \in S})
             x == CHOOSE y \in S : key[y] = k
         IN <<x>> \o SetToSortedSeq(S \ {x}, key)

\* AnimeRepository::list_all: ORDER BY titulo_principal (rows with equal
\* titles in insertion order)
anime_list_all(W) ==
    SetToSortedSeq(W.animes,
                   [a \in W.animes |-> title_rank(a.titulo_principal) * 1000 + a.id])

\* AnimeRepository::get_by_id
anime_get_by_id(W, id) == {a \in W.animes : a.id = id}

\* position of an episode number under ORDER BY numero_valor (text order)
numero_rank(num) == IF num.kind = "regular" THEN num.numero ELSE 100

\* EpisodeRepository::list_by_anime: WHERE anime_id = ?1 ORDER BY numero_valor
episode_list_by_anime(W, anime_id) ==
    LET S == {e \in W.episodes : e.anime_id = anime_id}
    IN SetToSortedSeq(S, [e \in S |-> numero_rank(e.numero) * 1000 + e.id])

\* EpisodeRepository::get_by_id
episode_get_by_id(W, id) == {e \in W.episodes : e.id = id}

\* FileRepository::get_by_id
file_get_by_id(W, id) == {f \in W.files : f.id = id}

\* MaterializationRepository::exists_by_fingerprint
exists_by_fingerprint(W, fp) ==
    \E i \in 1..Len(W.ledger) : W.ledger[i].fingerprint = fp

\* MaterializationRepository::save
materialization_repo_save(W, record) ==
    [W EXCEPT !.ledger = Append(@, record)]

-----------------------------------------------------------------------------
(* Events and fingerprints *)

EventTypes == {"FileResolved", "EpisodeResolved", "ResolutionFailed",
               "ResolutionSkipped", "ResolutionBatchCompleted",
               "AnimeCreated", "EpisodeCreated", "FileLinkedToEpisode"}

\* MaterializationFingerprint::from_file_resolved: SHA-256 over the bytes of
\* file_id, the lower-cased title, the number string and the role, fed to the
\* hasher one after the other (no separators)
from_file_resolved(file_id, anime_title, episode_number, file_role) ==
    <<"file", file_id, to_lowercase(anime_title) \o episode_number \o file_role>>

\* MaterializationFingerprint::from_episode_resolved
from_episode_resolved(anime_title, episode_number, video_file_id) ==
    <<"episode", to_lowercase(anime_title) \o episode_number, video_file_id>>

AnimeCreated(anime_id, titulo_principal) ==
    [type |-> "AnimeCreated", anime_id |-> anime_id,
     titulo_principal |-> titulo_principal, tipo |-> "TV"]

EpisodeCreated(episode_id, anime_id, numero) ==
    [type |-> "EpisodeCreated", episode_id |-> episode_id, anime_id |-> anime_id,
     numero |-> numero]

FileLinkedToEpisode(episode_id, file_id, is_primary) ==
    [type |-> "FileLinkedToEpisode", episode_id |-> episode_id,
     file_id |-> file_id, is_primary |-> is_primary]

\* EventBus::emit, defined after the handlers it dispatches to
RECURSIVE emit(_, _)

-----------------------------------------------------------------------------
(* Materialization service *)

\* locals of one materialize_file_resolved / materialize_episode_resolved call
NewMaterialization(kind, event) ==
    [kind |-> kind, event |-> event, pc |-> "check",
     fingerprint |->
        IF kind = "file"
        THEN from_file_resolved(event.file_id, event.anime_title,
                                event.episode_number, event.file_role)
        ELSE from_episode_resolved(event.anime_title, event.episode_number,
                                   event.video_file_id),
     anime_decision |-> [d |-> "none"], anime_id |-> None, is_new_anime |-> FALSE,
     episode_decision |-> [d |-> "none"], episode_id |-> None,
     is_new_episode |-> FALSE, file_linked |-> FALSE, links_made |-> 0,
     status |-> "running", outcome |-> "none", error |-> "none"]

\* `?` on an Err: the call returns the error at once
Failed(L, error) == [L EXCEPT !.pc = "done", !.status = "err", !.error = error]

\* mutant of skipped: the early return is missing and the call goes on
skipped_falls_through(L) == [L EXCEPT !.pc = "decide_anime"]

\* MaterializationResult::skipped
skipped(L) == [L EXCEPT !.pc = "done", !.status = "ok", !.outcome = "Skipped"]

\* mutant of check_idempotency: the ledger is asked but the answer is dropped
check_idempotency_never_found(W, L) ==
    LET c == RepoCall(W, "ledger.exists")
    IN IF c.failed THEN [w |-> c.w, l |-> Failed(L, "RepositoryError")]
       ELSE [w |-> c.w, l |-> [L EXCEPT !.pc = "decide_anime"]]

\* Step 2: the idempotency check
check_idempotency(W, L) ==
    LET c == RepoCall(W, "ledger.exists")
    IN IF c.failed THEN [w |-> c.w, l |-> Failed(L, "RepositoryError")]
       ELSE IF exists_by_fingerprint(c.w, L.fingerprint)
            THEN [w |-> c.w, l |-> skipped(L)]
            ELSE [w |-> c.w, l |-> [L EXCEPT !.pc = "decide_anime"]]

\* the anime's main title or one of its alternative titles equals the title,
\* compared lower-cased
title_matches(anime, title) ==
    \/ to_lowercase(anime.titulo_principal) = to_lowercase(title)
    \/ \E alt \in anime.titulos_alternativos : to_lowercase(alt) = to_lowercase(title)

\* mutant of find_anime_by_title: the rows are not searched
find_anime_by_title_unsearched(all_anime, title) == None

\* MaterializationService::find_anime_by_title over the rows list_all returned:
\* the id of the first match, or None
find_anime_by_title(all_anime, title) ==
    LET hits == {i \in 1..Len(all_anime) : title_matches(all_anime[i], title)}
    IN IF hits = {} THEN None ELSE all_anime[Min(hits)].id

\* mutant of decide_anime: the title search comes before the matched id
decide_anime_title_first(W, title, matched_id) ==
    LET c == RepoCall(W, "anime.list_all")
        found == find_anime_by_title(anime_list_all(c.w), title)
        g == IF matched_id # None THEN RepoCall(c.w, "anime.get_by_id")
             ELSE [w |-> c.w, failed |-> FALSE]
    IN IF c.failed THEN [w |-> c.w, err |-> TRUE, dec |-> [d |-> "none"]]
       ELSE IF found # None
            THEN [w |-> c.w, err |-> FALSE,
                  dec |-> [d |-> "UseExistingAnime", anime_id |-> found]]
       ELSE IF g.failed THEN [w |-> g.w, err |-> TRUE, dec |-> [d |-> "none"]]
       ELSE IF matched_id # None /\ anime_get_by_id(g.w, matched_id) # {}
            THEN [w |-> g.w, err |-> FALSE,
                  dec |-> [d |-> "UseExistingAnime", anime_id |-> matched_id]]
       ELSE [w |-> g.w, err |-> FALSE, dec |-> [d |-> "CreateAnime", title |-> title]]

\* MaterializationService::decide_anime
decide_anime(W, title, matched_id) ==
    LET g == IF matched_id # None THEN RepoCall(W, "anime.get_by_id")
             ELSE [w |-> W, failed |-> FALSE]
    IN IF g.failed THEN [w |-> g.w, err |-> TRUE, dec |-> [d |-> "none"]]
       ELSE IF matched_id # None /\ anime_get_by_id(g.w, matched_id) # {}
            THEN [w |-> g.w, err |-> FALSE,
                  dec |-> [d |-> "UseExistingAnime", anime_id |-> matched_id]]
       ELSE LET c == RepoCall(g.w, "anime.list_all")
                found == find_anime_by_title(anime_list_all(c.w), title)
            IN IF c.failed THEN [w |-> c.w, err |-> TRUE, dec |-> [d |-> "none"]]
               ELSE IF found # None
                    THEN [w |-> c.w, err |-> FALSE,
                          dec |-> [d |-> "UseExistingAnime", anime_id |-> found]]
                    ELSE [w |-> c.w, err |-> FALSE,
                          dec |-> [d |-> "CreateAnime", title |-> title]]

\* validate_anime: the title must not be blank (a new anime has no dates)
validate_anime(anime) == ~ trim_is_empty(anime.titulo_principal)

\* AnimeRepository::save: INSERT OR REPLACE by id
anime_save(W, anime) ==
    [W EXCEPT !.animes = {a \in @ : a.id # anime.id} \cup {anime}]

\* mutant of execute_anime_decision: the candidate is saved and announced
\* before it is validated
execute_anime_decision_saves_first(W, decision) ==
    IF decision.d = "UseExistingAnime"
    THEN [w |-> W, err |-> "none", id |-> decision.anime_id, is_new |-> FALSE]
    ELSE IF decision.d = "CreateAnime"
    THEN LET anime == [id |-> W.next_id, titulo_principal |-> decision.title,
                       titulos_alternativos |-> {}]
             W1 == [W EXCEPT !.next_id = @ + 1]
             c == RepoCall(W1, "anime.save")
         IN IF c.failed
            THEN [w |-> c.w, err |-> "RepositoryError", id |-> None, is_new |-> FALSE]
            ELSE [w |-> emit(anime_save(c.w, anime),
                             AnimeCreated(anime.id, anime.titulo_principal)),
                  err |-> IF validate_anime(anime) THEN "none" ELSE "InvariantViolation",
                  id |-> IF validate_anime(anime) THEN anime.id ELSE None,
                  is_new |-> validate_anime(anime)]
    ELSE [w |-> W, err |-> "Other", id |-> None, is_new |-> FALSE]

\* mutant of execute_anime_decision: a reused work is saved again, with the
\* fields of a new one
execute_anime_decision_saves_reused(W, decision) ==
    IF decision.d = "UseExistingAnime"
    THEN [w |-> anime_save(W, [id |-> decision.anime_id,
                               titulo_principal |-> "Steins Gate",
                               titulos_alternativos |-> {}]),
          err |-> "none", id |-> decision.anime_id, is_new |-> FALSE]
    ELSE IF decision.d = "CreateAnime"
    THEN LET anime == [id |-> W.next_id, titulo_principal |-> decision.title,
                       titulos_alternativos |-> {}]
             W1 == [W EXCEPT !.next_id = @ + 1]
             c == RepoCall(W1, "anime.save")
         IN IF ~ validate_anime(anime)
            THEN [w |-> W1, err |-> "InvariantViolation", id |-> None, is_new |-> FALSE]
            ELSE IF c.failed
            THEN [w |-> c.w, err |-> "RepositoryError", id |-> None, is_new |-> FALSE]
            ELSE [w |-> emit(anime_save(c.w, anime),
                             AnimeCreated(anime.id, anime.titulo_principal)),
                  err |-> "none", id |-> anime.id, is_new |-> TRUE]
    ELSE [w |-> W, err |-> "Other", id |-> None, is_new |-> FALSE]

\* MaterializationService::execute_anime_decision
execute_anime_decision(W, decision) ==
    IF decision.d = "UseExistingAnime"
    THEN [w |-> W, err |-> "none", id |-> decision.anime_id, is_new |-> FALSE]
    ELSE IF decision.d = "CreateAnime"
    THEN LET anime == [id |-> W.next_id, titulo_principal |-> decision.title,
                       titulos_alternativos |-> {}]
             W1 == [W EXCEPT !.next_id = @ + 1]
             c == RepoCall(W1, "anime.save")
         IN IF ~ validate_anime(anime)
            THEN [w |-> W1, err |-> "InvariantViolation", id |-> None, is_new |-> FALSE]
            ELSE IF c.failed
            THEN [w |-> c.w, err |-> "RepositoryError", id |-> None, is_new |-> FALSE]
            ELSE [w |-> emit(anime_save(c.w, anime),
                             AnimeCreated(anime.id, anime.titulo_principal)),
                  err |-> "none", id |-> anime.id, is_new |-> TRUE]
    ELSE [w |-> W, err |-> "Other", id |-> None, is_new |-> FALSE]

\* the episode carries the number, compared as the code compares it
number_matches(numero, number) ==
    \/ numero.kind = "regular" /\ number.kind = "regular" /\ numero.numero = number.numero
    \/ numero.kind = "special" /\ number.kind = "special"
       /\ to_lowercase(numero.label) = to_lowercase(number.label)

\* MaterializationService::find_episode_by_number over the rows list_by_anime
\* returned: the id of the first match, or None
find_episode_by_number(eps, number) ==
    LET hits == {i \in 1..Len(eps) : number_matches(eps[i].numero, number)}
    IN IF hits = {} THEN None ELSE eps[Min(hits)].id

\* mutant of decide_episode: the number search comes before the matched id
decide_episode_number_first(W, anime_id, episode_number, matched_id) ==
    LET number_decision == parse_episode_number(episode_number)
        c == RepoCall(W, "episode.list_by_anime")
        found == find_episode_by_number(episode_list_by_anime(c.w, anime_id),
                                        number_decision)
        g == IF matched_id # None THEN RepoCall(c.w, "episode.get_by_id")
             ELSE [w |-> c.w, failed |-> FALSE]
    IN IF c.failed THEN [w |-> c.w, err |-> TRUE, dec |-> [d |-> "none"]]
       ELSE IF found # None
            THEN [w |-> c.w, err |-> FALSE,
                  dec |-> [d |-> "UseExistingEpisode", episode_id |-> found]]
       ELSE IF g.failed THEN [w |-> g.w, err |-> TRUE, dec |-> [d |-> "none"]]
       ELSE IF matched_id # None /\ episode_get_by_id(g.w, matched_id) # {}
            THEN [w |-> g.w, err |-> FALSE,
                  dec |-> [d |-> "UseExistingEpisode", episode_id |-> matched_id]]
       ELSE [w |-> g.w, err |-> FALSE,
             dec |-> [d |-> "CreateEpisode", anime_id |-> anime_id,
                      number |-> number_decision]]

\* MaterializationService::decide_episode
decide_episode(W, anime_id, episode_number, matched_id) ==
    LET g == IF matched_id # None THEN RepoCall(W, "episode.get_by_id")
             ELSE [w |-> W, failed |-> FALSE]
    IN IF g.failed THEN [w |-> g.w, err |-> TRUE, dec |-> [d |-> "none"]]
       ELSE IF matched_id # None /\ episode_get_by_id(g.w, matched_id) # {}
            THEN [w |-> g.w, err |-> FALSE,
                  dec |-> [d |-> "UseExistingEpisode", episode_id |-> matched_id]]
       ELSE LET number_decision == parse_episode_number(episode_number)
                c == RepoCall(g.w, "episode.list_by_anime")
                found == find_episode_by_number(
                             episode_list_by_anime(c.w, anime_id), number_decision)
            IN IF c.failed THEN [w |-> c.w, err |-> TRUE, dec |-> [d |-> "none"]]
               ELSE IF found # None
                    THEN [w |-> c.w, err |-> FALSE,
                          dec |-> [d |-> "UseExistingEpisode", episode_id |-> found]]
                    ELSE [w |-> c.w, err |-> FALSE,
                          dec |-> [d |-> "CreateEpisode", anime_id |-> anime_id,
                                   number |-> number_decision]]

\* validate_episode: progress must not exceed the duration when it is known
validate_episode(episode) ==
    episode.duracao_esperada = None \/ episode.progresso_atual <= episode.duracao_esperada

\* EpisodeRepository::save: INSERT OR REPLACE by id
episode_save(W, episode) ==
    [W EXCEPT !.episodes = {e \in @ : e.id # episode.id} \cup {episode}]

\* MaterializationService::execute_episode_decision
execute_episode_decision(W, decision) ==
    IF decision.d = "UseExistingEpisode"
    THEN [w |-> W, err |-> "none", id |-> decision.episode_id, is_new |-> FALSE]
    ELSE IF decision.d = "CreateEpisode"
    THEN LET episode == [id |-> W.next_id, anime_id |-> decision.anime_id,
                         numero |-> decision.number,
                         titulo |-> IF decision.number.kind = "special"
                                    THEN decision.number.label ELSE "",
                         duracao_esperada |-> None, progresso_atual |-> 0,
                         estado |-> "NaoVisto"]
             W1 == [W EXCEPT !.next_id = @ + 1]
             c == RepoCall(W1, "episode.save")
         IN IF ~ validate_episode(episode)
            THEN [w |-> W1, err |-> "InvariantViolation", id |-> None, is_new |-> FALSE]
            ELSE IF c.failed
            THEN [w |-> c.w, err |-> "RepositoryError", id |-> None, is_new |-> FALSE]
            ELSE [w |-> emit(episode_save(c.w, episode),
                             EpisodeCreated(episode.id, decision.anime_id,
                                            number_to_string(episode.numero))),
                  err |-> "none", id |-> episode.id, is_new |-> TRUE]
    ELSE [w |-> W, err |-> "Other", id |-> None, is_new |-> FALSE]

\* EpisodeRepository::link_file: INSERT OR IGNORE INTO episode_files
episode_link_file(W, episode_id, file_id) ==
    [W EXCEPT !.episode_files = @ \cup {<<episode_id, file_id>>}]

\* mutant of role_is_linkable: images are linked too
role_is_linkable_with_image(file_role) == file_role \in {"video", "subtitle", "image"}

\* only video and subtitle files are linked
role_is_linkable(file_role) == file_role = "video" \/ file_role = "subtitle"

\* mutant of link_file_if_applicable: the role is not looked at
link_file_if_applicable_any_role(W, episode_id, file_id, file_role) ==
    LET g == RepoCall(W, "file.get_by_id")
        c == RepoCall(g.w, "episode.link_file")
    IN IF g.failed THEN [w |-> g.w, err |-> TRUE, linked |-> FALSE]
       ELSE IF file_get_by_id(g.w, file_id) = {}
       THEN [w |-> g.w, err |-> FALSE, linked |-> FALSE]
       ELSE IF c.failed THEN [w |-> c.w, err |-> TRUE, linked |-> FALSE]
       ELSE [w |-> emit(episode_link_file(c.w, episode_id, file_id),
                        FileLinkedToEpisode(episode_id, file_id, file_role = "video")),
             err |-> FALSE, linked |-> TRUE]

\* mutant of link_file_if_applicable: a file that is not found is an Err
link_file_if_applicable_missing_is_err(W, episode_id, file_id, file_role) ==
    IF ~ role_is_linkable(file_role)
    THEN [w |-> W, err |-> FALSE, linked |-> FALSE]
    ELSE LET g == RepoCall(W, "file.get_by_id")
             c == RepoCall(g.w, "episode.link_file")
         IN IF g.failed \/ file_get_by_id(g.w, file_id) = {}
            THEN [w |-> g.w, err |-> TRUE, linked |-> FALSE]
            ELSE IF c.failed THEN [w |-> c.w, err |-> TRUE, linked |-> FALSE]
            ELSE [w |-> emit(episode_link_file(c.w, episode_id, file_id),
                             FileLinkedToEpisode(episode_id, file_id,
                                                 file_role = "video")),
                  err |-> FALSE, linked |-> TRUE]

\* MaterializationService::link_file_if_applicable
link_file_if_applicable(W, episode_id, file_id, file_role) ==
    IF ~ role_is_linkable(file_role)
    THEN [w |-> W, err |-> FALSE, linked |-> FALSE]
    ELSE LET g == RepoCall(W, "file.get_by_id")
             c == RepoCall(g.w, "episode.link_file")
         IN IF g.failed THEN [w |-> g.w, err |-> TRUE, linked |-> FALSE]
            ELSE IF file_get_by_id(g.w, file_id) = {}
            THEN [w |-> g.w, err |-> FALSE, linked |-> FALSE]
            ELSE IF c.failed THEN [w |-> c.w, err |-> TRUE, linked |-> FALSE]
            ELSE [w |-> emit(episode_link_file(c.w, episode_id, file_id),
                             FileLinkedToEpisode(episode_id, file_id,
                                                 file_role = "video")),
                  err |-> FALSE, linked |-> TRUE]

\* MaterializationService::determine_outcome
determine_outcome(is_new_anime, is_new_episode, file_linked) ==
    IF is_new_anime THEN "AnimeCreated"
    ELSE IF is_new_episode THEN "EpisodeCreated"
    ELSE IF file_linked THEN "FileLinked"
    ELSE "EpisodeMatched"

\* Steps 3-4 of materialize_*_resolved, first half: the anime decision
step_decide_anime(W, L) ==
    The({IF r.err THEN [w |-> r.w, l |-> Failed(L, "RepositoryError")]
         ELSE [w |-> r.w, l |-> [L EXCEPT !.pc = "execute_anime",
                                          !.anime_decision = r.dec]]
         : r \in {decide_anime(W, L.event.anime_title, L.event.matched_anime_id)}})

\* Step 4: the anime decision executed
step_execute_anime(W, L) ==
    The({IF r.err # "none" THEN [w |-> r.w, l |-> Failed(L, r.err)]
         ELSE [w |-> r.w, l |-> [L EXCEPT !.pc = "decide_episode", !.anime_id = r.id,
                                          !.is_new_anime = r.is_new]]
         : r \in {execute_anime_decision(W, L.anime_decision)}})

\* Step 5: the episode decision
step_decide_episode(W, L) ==
    The({IF r.err THEN [w |-> r.w, l |-> Failed(L, "RepositoryError")]
         ELSE [w |-> r.w, l |-> [L EXCEPT !.pc = "execute_episode",
                                          !.episode_decision = r.dec]]
         : r \in {decide_episode(W, L.anime_id, L.event.episode_number,
                                 L.event.matched_episode_id)}})

\* Step 6: the episode decision executed
step_execute_episode(W, L) ==
    The({IF r.err # "none" THEN [w |-> r.w, l |-> Failed(L, r.err)]
         ELSE [w |-> r.w, l |-> [L EXCEPT !.pc = "link", !.episode_id = r.id,
                                          !.is_new_episode = r.is_new]]
         : r \in {execute_episode_decision(W, L.episode_decision)}})

RECURSIVE link_subtitles(_, _, _, _, _)
\* Step 8 of materialize_episode_resolved: the loop over subtitle_file_ids;
\* the first Err ends it
link_subtitles(W, episode_id, subs, i, n) ==
    IF i > Len(subs) THEN [w |-> W, err |-> FALSE, n |-> n]
    ELSE The({IF r.err THEN [w |-> r.w, err |-> TRUE, n |-> n]
              ELSE link_subtitles(r.w, episode_id, subs, i + 1,
                                  n + (IF r.linked THEN 1 ELSE 0))
              : r \in {link_file_if_applicable(W, episode_id, subs[i], "subtitle")}})

\* Step 7 of materialize_file_resolved: the event's file is linked, and
\* file_linked is what link_file_if_applicable returned
link_file_resolved(W, L) ==
    The({[w |-> r.w, err |-> r.err, file_linked |-> r.linked,
          n |-> IF r.linked THEN 1 ELSE 0]
         : r \in {link_file_if_applicable(W, L.episode_id, L.event.file_id,
                                          L.event.file_role)}})

\* Steps 7-9 of materialize_episode_resolved: the video, then the subtitles;
\* determine_outcome is given "the event names a video or a subtitle"
link_episode_resolved(W, L) ==
    The({IF v.err THEN [w |-> v.w, err |-> TRUE, file_linked |-> FALSE, n |-> 0]
         ELSE The({[w |-> s.w, err |-> s.err,
                    file_linked |-> (L.event.video_file_id # None
                                     \/ L.event.subtitle_file_ids # <<>>),
                    n |-> s.n]
                   : s \in {link_subtitles(v.w, L.episode_id,
                                           L.event.subtitle_file_ids, 1,
                                           IF v.linked THEN 1 ELSE 0)}})
         : v \in {IF L.event.video_file_id # None
                  THEN link_file_if_applicable(W, L.episode_id,
                                               L.event.video_file_id, "video")
                  ELSE [w |-> W, err |-> FALSE, linked |-> FALSE]}})

\* the linking step of either call
step_link(W, L) ==
    The({IF r.err
         THEN [w |-> r.w, l |-> Failed([L EXCEPT !.links_made = r.n], "RepositoryError")]
         ELSE [w |-> r.w, l |-> [L EXCEPT !.pc = "record", !.file_linked = r.file_linked,
                                          !.links_made = r.n]]
         : r \in {IF L.kind = "file" THEN link_file_resolved(W, L)
                  ELSE link_episode_resolved(W, L)}})

\* MaterializationRecord::new
MaterializationRecord(L, outcome) ==
    [fingerprint |-> L.fingerprint,
     event_type |-> IF L.kind = "file" THEN "file_resolved" ELSE "episode_resolved",
     source_event_id |-> L.event.fingerprint,
     anime_id |-> L.anime_id, episode_id |-> L.episode_id,
     file_id |-> IF L.kind = "file" THEN L.event.file_id ELSE L.event.video_file_id,
     outcome |-> outcome]

\* mutant of step_record: the record is saved only when the ledger has none
\* for the fingerprint yet
step_record_once(W, L) ==
    LET outcome == determine_outcome(L.is_new_anime, L.is_new_episode, L.file_linked)
        c == RepoCall(W, "ledger.save")
    IN IF c.failed THEN [w |-> c.w, l |-> Failed(L, "RepositoryError")]
       ELSE [w |-> IF exists_by_fingerprint(c.w, L.fingerprint) THEN c.w
                   ELSE materialization_repo_save(c.w, MaterializationRecord(L, outcome)),
             l |-> [L EXCEPT !.pc = "done", !.status = "ok", !.outcome = outcome]]

\* Steps 8-10: the outcome, the ledger record, the result
step_record(W, L) ==
    LET outcome == determine_outcome(L.is_new_anime, L.is_new_episode, L.file_linked)
        c == RepoCall(W, "ledger.save")
    IN IF c.failed THEN [w |-> c.w, l |-> Failed(L, "RepositoryError")]
       ELSE [w |-> materialization_repo_save(c.w, MaterializationRecord(L, outcome)),
             l |-> [L EXCEPT !.pc = "done", !.status = "ok", !.outcome = outcome]]

\* one step of materialize_file_resolved / materialize_episode_resolved
materialize_step(W, L) ==
    CASE L.pc = "check"           -> check_idempotency(W, L)
      [] L.pc = "decide_anime"    -> step_decide_anime(W, L)
      [] L.pc = "execute_anime"   -> step_execute_anime(W, L)
      [] L.pc = "decide_episode"  -> step_decide_episode(W, L)
      [] L.pc = "execute_episode" -> step_execute_episode(W, L)
      [] L.pc = "link"            -> step_link(W, L)
      [] L.pc = "record"          -> step_record(W, L)

RECURSIVE run_materialization(_, _)
\* a call run to its end
run_materialization(W, L) ==
    IF L.pc = "done" THEN [w |-> W, l |-> L]
    ELSE The({run_materialization(r.w, r.l) : r \in {materialize_step(W, L)}})

\* MaterializationService::materialize_file_resolved
materialize_file_resolved(W, event) ==
    run_materialization(W, NewMaterialization("file", event))

\* MaterializationService::materialize_episode_resolved
materialize_episode_resolved(W, event) ==
    run_materialization(W, NewMaterialization("episode", event))

\* what a call returned: Ok(MaterializationResult) or Err
MaterializationResult(L) ==
    [kind |-> L.kind, fingerprint |-> L.fingerprint, status |-> L.status,
     outcome |-> L.outcome, error |-> L.error,
     anime_id |-> IF L.status = "ok" /\ L.outcome # "Skipped" THEN L.anime_id ELSE None,
     episode_id |-> IF L.status = "ok" /\ L.outcome # "Skipped" THEN L.episode_id ELSE None,
     is_new_anime |-> L.status = "ok" /\ L.is_new_anime,
     is_new_episode |-> L.status = "ok" /\ L.is_new_episode]

-----------------------------------------------------------------------------
(* Event bus *)

\* handle_file_resolved: the result is printed, an Err is printed and dropped
handle_file_resolved(W, event) ==
    The({[r.w EXCEPT !.results = Append(@, MaterializationResult(r.l))]
         : r \in {materialize_file_resolved(W, event)}})

\* handle_episode_resolved
handle_episode_resolved(W, event) ==
    The({[r.w EXCEPT !.results = Append(@, MaterializationResult(r.l))]
         : r \in {materialize_episode_resolved(W, event)}})

\* the body of one subscribed closure, run on the emitting thread; n is the
\* position of the emission in the log.  A "panic" handler panics, a "probe"
\* handler only records that it ran.
invoke_handler(W, h, event, n) ==
    LET W1 == [W EXCEPT !.trace = Append(@, [handler |-> h.id, emission |-> n,
                                             event_type |-> event.type])]
    IN CASE h.kind = "materialize_file"    -> [w |-> handle_file_resolved(W1, event),
                                               panicked |-> FALSE]
         [] h.kind = "materialize_episode" -> [w |-> handle_episode_resolved(W1, event),
                                               panicked |-> FALSE]
         [] h.kind = "panic"               -> [w |-> W1, panicked |-> TRUE]
         [] OTHER                          -> [w |-> W1, panicked |-> FALSE]

\* mutant of catch_unwind: the handler is called without catch_unwind
catch_unwind_missing(r) == r

\* std::panic::catch_unwind around the handler: the panic is printed and ends there
catch_unwind(r) == [r EXCEPT !.panicked = FALSE]

\* handlers.get(&type_id): the handlers subscribed for the event's type
handlers_for(W, event_type) == W.handlers[event_type]

\* mutant of handler_at: the handlers are run last subscribed first
handler_at_reversed(hs, i) == hs[Len(hs) + 1 - i]

\* the handler the dispatch loop runs at its i-th turn
handler_at(hs, i) == hs[i]

RECURSIVE dispatch(_, _, _, _, _)
\* the loop over the handlers of emit; a panic that is not caught ends it
dispatch(W, hs, i, event, n) ==
    IF i > Len(hs) THEN W
    ELSE The({IF r.panicked \/ r.w.unwinding THEN [r.w EXCEPT !.unwinding = TRUE]
              ELSE dispatch(r.w, hs, i + 1, event, n)
              : r \in {catch_unwind(invoke_handler(W, handler_at(hs, i), event, n))}})

\* EventBus::emit
emit(W, event) ==
    LET hs == handlers_for(W, event.type)
        W1 == [W EXCEPT !.event_log = Append(@, [event_type |-> event.type,
                                                 handler_count |-> Len(hs)]),
                        !.emitted = Append(@, event)]
    IN dispatch(W1, hs, 1, event, Len(W1.event_log))

\* EventBus::subscribe
subscribe(W, event_type, handler) ==
    [W EXCEPT !.handlers[event_type] = Append(@, handler)]

-----------------------------------------------------------------------------
(* Data of the model: the file facts, the catalogs, the events *)

\* ResolvedFile::fingerprint: DefaultHasher over file_id, the lower-cased
\* title, the number string and the role (each value hashed with its own
\* terminator, so the tuple is what is hashed)
resolved_fingerprint(file_id, title, number_str, role) ==
    <<"ok", file_id, to_lowercase(title), number_str, role>>

\* FileResolved::new
FileResolved(file_id, anime_title, matched_anime_id, episode_number, matched_episode_id, file_role, confidence, source) ==
    [type |-> "FileResolved", file_id |-> file_id, anime_title |-> anime_title,
     matched_anime_id |-> matched_anime_id, episode_number |-> episode_number,
     matched_episode_id |-> matched_episode_id, file_role |-> file_role,
     confidence |-> confidence, source |-> source,
     fingerprint |-> resolved_fingerprint(file_id, anime_title, episode_number,
                                          file_role)]

\* the set of the elements of a sequence
Range(seq) == {seq[i] : i \in 1..Len(seq)}

\* EpisodeResolved::new; the fingerprint hashes the ids sorted
EpisodeResolved(anime_title, matched_anime_id, episode_number, matched_episode_id, video_file_id, subtitle_file_ids, image_file_ids, confidence) ==
    [type |-> "EpisodeResolved", anime_title |-> anime_title,
     matched_anime_id |-> matched_anime_id, episode_number |-> episode_number,
     matched_episode_id |-> matched_episode_id, video_file_id |-> video_file_id,
     subtitle_file_ids |-> subtitle_file_ids, image_file_ids |-> image_file_ids,
     confidence |-> confidence,
     fingerprint |-> <<"ep", to_lowercase(anime_title), episode_number, video_file_id,
                       Range(subtitle_file_ids), Range(image_file_ids)>>]

File(id, caminho_absoluto, tipo) ==
    [id |-> id, caminho_absoluto |-> caminho_absoluto, tipo |-> tipo]

Anime(id, titulo_principal, titulos_alternativos) ==
    [id |-> id, titulo_principal |-> titulo_principal,
     titulos_alternativos |-> titulos_alternativos]

Episode(id, anime_id, numero) ==
    [id |-> id, anime_id |-> anime_id, numero |-> numero,
     titulo |-> IF numero.kind = "special" THEN numero.label ELSE "",
     duracao_esperada |-> None, progresso_atual |-> 0, estado |-> "NaoVisto"]

\* the file table of the service-level specifications: a video, a subtitle
\* and an image; no file has id 9
ServiceFiles ==
    {File(1, "/lib/Steins Gate/[Sub] Steins Gate - 01 [1080p].mkv", "Video"),
     File(2, "/lib/Steins Gate/[Sub] Steins Gate - 01 [1080p].ass", "Legenda"),
     File(3, "/lib/Steins Gate/Steins Gate - 01.jpg", "Imagem")}

\* the catalogs a behaviour starts from: empty, a work without parts, a work
\* with part 1, and two works of which the first has part 1 and a special
Catalogs ==
    {[animes |-> {}, episodes |-> {}],
     [animes |-> {Anime(1, "Steins Gate", {})}, episodes |-> {}],
     [animes |-> {Anime(1, "Steins Gate", {})},
      episodes |-> {Episode(2, 1, Regular(1))}],
     [animes |-> {Anime(1, "Steins Gate", {}), Anime(3, "Steins;Gate", {"AB"})},
      episodes |-> {Episode(2, 1, Regular(1)), Episode(4, 1, Special("ova"))}]}

\* the events handed to materialize_file_resolved
FileResolvedInputs ==
    {FileResolved(1, "Steins Gate", None, "1", None, "video", 65, "filename"),
     FileResolved(1, "STEINS GATE", None, "1", None, "video", 65, "filename"),
     FileResolved(1, "Steins Gate", 1, "1", 2, "video", 100, "filename"),
     FileResolved(1, "Steins Gate", None, "OVA", None, "video", 65, "folder_name"),
     FileResolved(2, "Steins Gate", None, "1", None, "subtitle", 65, "filename"),
     FileResolved(3, "Steins Gate", None, "1", None, "image", 65, "filename"),
     FileResolved(9, "Steins Gate", None, "1", None, "video", 65, "filename"),
     FileResolved(1, " ", None, "1", None, "video", 65, "filename"),
     FileResolved(1, "Steins;Gate", 1, "OVA", 2, "video", 100, "filename"),
     FileResolved(1, "ab", None, "12", None, "video", 65, "filename"),
     FileResolved(1, "ab1", None, "2", None, "video", 65, "filename")}

\* the events handed to materialize_episode_resolved
EpisodeResolvedInputs ==
    {EpisodeResolved("Steins Gate", None, "1", None, 1, <<2>>, <<3>>, 65),
     EpisodeResolved("Steins Gate", None, "1", None, None, <<>>, <<3>>, 65),
     EpisodeResolved("Steins Gate", None, "1", None, 9, <<>>, <<>>, 65),
     EpisodeResolved("Steins Gate", None, "OVA", None, None, <<2, 9>>, <<>>, 65)}

\* the repository calls that can return Err in a materialization call
MaterializationFaults ==
    {NoFault, <<"ledger.exists", 1>>, <<"anime.save", 1>>, <<"episode.link_file", 1>>,
     <<"ledger.save", 1>>}

NoHandlers == [t \in EventTypes |-> <<>>]

-----------------------------------------------------------------------------
(* Service-level specification: direct calls of the materialization service *)

\* the stores after a call
Commit(W) ==
    /\ animes' = W.animes
    /\ episodes' = W.episodes
    /\ episode_files' = W.episode_files
    /\ files' = W.files
    /\ ledger' = W.ledger
    /\ resolved_fingerprints' = W.resolved_fingerprints
    /\ handlers' = W.handlers
    /\ event_log' = W.event_log
    /\ next_id' = W.next_id
    /\ emitted' = W.emitted
    /\ trace' = W.trace

\* the repository call that returned Err during the call, NoFault when none did
FiredFault(W) ==
    IF W.fault # NoFault /\ W.ncalls[W.fault[1]] >= W.fault[2] THEN W.fault ELSE NoFault

\* what a top-level call did: its input, what it returned, and the stores
\* before it (W0) compared with the stores after it (W1)
CallSummary(op, input, W0, W1, result, links_made) ==
    [op |-> op, input |-> input, fault |-> FiredFault(W1), result |-> result,
     animes_created |-> Cardinality(W1.animes \ W0.animes),
     episodes_created |-> Cardinality(W1.episodes \ W0.episodes),
     links_added |-> W1.episode_files \ W0.episode_files,
     links_made |-> links_made,
     first_emission |-> Len(W0.emitted) + 1,
     ledger_before |-> W0.ledger,
     catalog_before |-> [animes |-> W0.animes, episodes |-> W0.episodes,
                         episode_files |-> W0.episode_files],
     fingerprints_before |-> W0.resolved_fingerprints,
     handlers_before |-> W0.handlers,
     ledger_after |-> W1.ledger,
     emissions |-> Len(W1.emitted) - Len(W0.emitted),
     ncalls |-> W1.ncalls,
     results |-> W1.results,
     unwinding |-> W1.unwinding]

InitMat ==
    /\ \E c \in Catalogs : animes = c.animes /\ episodes = c.episodes
    /\ episode_files = {}
    /\ files = ServiceFiles
    /\ ledger = <<>>
    /\ resolved_fingerprints = {}
    /\ handlers = NoHandlers
    /\ event_log = <<>>
    /\ next_id = 10
    /\ emitted = <<>>
    /\ trace = <<>>
    /\ calls = <<>>
    /\ threads = <<>>

\* one call of materialize_file_resolved
MaterializeFileResolved ==
    \E event \in FileResolvedInputs, fault \in MaterializationFaults :
        /\ Len(calls) < MaxOps
        /\ \E r \in {materialize_file_resolved(World(fault), event)} :
              /\ Commit(r.w)
              /\ calls' = Append(calls,
                     CallSummary("materialize_file_resolved", event, World(fault), r.w,
                                 MaterializationResult(r.l), r.l.links_made))
        /\ UNCHANGED threads

\* one call of materialize_episode_resolved
MaterializeEpisodeResolved ==
    \E event \in EpisodeResolvedInputs, fault \in MaterializationFaults :
        /\ Len(calls) < MaxOps
        /\ \E r \in {materialize_episode_resolved(World(fault), event)} :
              /\ Commit(r.w)
              /\ calls' = Append(calls,
                     CallSummary("materialize_episode_resolved", event, World(fault), r.w,
                                 MaterializationResult(r.l), r.l.links_made))
        /\ UNCHANGED threads

NextMat == MaterializeFileResolved \/ MaterializeEpisodeResolved

SpecMat == InitMat /\ [][NextMat]_vars

-----------------------------------------------------------------------------
(* Claims on the materialization service, under SpecMat *)

\* the ledger holds a record with the fingerprint
InLedger(led, fp) == \E k \in 1..Len(led) : led[k].fingerprint = fp

\* the materialization fingerprint of the event a call was given
CallFingerprint(c) == c.result.fingerprint

\* no work of the catalog is the event's matched work or carries its title
NoMatchingWork(catalog, event) ==
    \A a \in catalog.animes :
        a.id # event.matched_anime_id /\ ~ title_matches(a, event.anime_title)

\* calls i and i+1 are materialize_file_resolved with the same event, no
\* repository call fails, before call i the catalog holds no matching work
\* and the ledger no record of the event, and call i returns Ok
SameEventTwice(i) ==
    /\ i + 1 <= Len(calls)
    /\ calls[i].result.status = "ok"
    /\ calls[i].op = "materialize_file_resolved"
    /\ calls[i + 1].op = "materialize_file_resolved"
    /\ calls[i].input = calls[i + 1].input
    /\ calls[i].fault = NoFault /\ calls[i + 1].fault = NoFault
    /\ NoMatchingWork(calls[i].catalog_before, calls[i].input)
    /\ ~ InLedger(calls[i].ledger_before, CallFingerprint(calls[i]))

\* the works, parts and links two consecutive calls created
CreatedByTwo(i) ==
    [animes |-> calls[i].animes_created + calls[i + 1].animes_created,
     episodes |-> calls[i].episodes_created + calls[i + 1].episodes_created,
     links |-> Cardinality(calls[i].links_added \cup calls[i + 1].links_added)]

\* C1 as stated: materializing the same FileResolved event twice from a
\* catalog with no matching work or part creates exactly one work, one part
\* and one file link, and the second call returns Skipped.
C1_SameEventTwiceOneOfEach ==
    \A i \in 1..Len(calls) :
        SameEventTwice(i) =>
            /\ CreatedByTwo(i) = [animes |-> 1, episodes |-> 1, links |-> 1]
            /\ calls[i + 1].result.status = "ok"
            /\ calls[i + 1].result.outcome = "Skipped"

\* C1 amended: the two calls create exactly one work and one part, the
\* second returns Skipped, and they create exactly one file link when the
\* event's role is video or subtitle and the file is in the file table, and
\* no link otherwise.
C1_SameEventTwiceOneWorkOnePart ==
    \A i \in 1..Len(calls) :
        SameEventTwice(i) =>
            /\ CreatedByTwo(i).animes = 1
            /\ CreatedByTwo(i).episodes = 1
            /\ CreatedByTwo(i).links =
                  IF /\ calls[i].input.file_role \in {"video", "subtitle"}
                     /\ \E f \in files : f.id = calls[i].input.file_id
                  THEN 1 ELSE 0
            /\ calls[i + 1].result.status = "ok"
            /\ calls[i + 1].result.outcome = "Skipped"

\* a video event materialized twice: one work, one part, one link, then Skipped
C1_Witness ==
    /\ SameEventTwice(1)
    /\ calls[1].input.file_role = "video"
    /\ calls[1].result.outcome = "AnimeCreated"
    /\ calls[2].result.outcome = "Skipped"
    /\ Cardinality(animes) = 1 /\ Cardinality(episodes) = 1
    /\ Cardinality(episode_files) = 1

\* C3: after any sequence of materialization calls the ledger holds at most
\* one record per fingerprint, and no step of the service updates, replaces
\* or deletes a record already saved.
C3_LedgerOneRecordPerFingerprint ==
    [][/\ \A k \in 1..Len(ledger) : k <= Len(ledger') /\ ledger'[k] = ledger[k]
       /\ \A j, k \in 1..Len(ledger') :
              ledger'[j].fingerprint = ledger'[k].fingerprint => j = k]_vars

\* two different events with the same fingerprint were materialized: the
\* first saved the record, the second was skipped, the ledger holds one record
C3_Witness ==
    /\ Len(calls) >= 2
    /\ CallFingerprint(calls[1]) = CallFingerprint(calls[2])
    /\ calls[1].input # calls[2].input
    /\ calls[1].result.status = "ok"
    /\ calls[2].result.outcome = "Skipped"
    /\ Len(ledger) = 1

\* the call found a ledger record of its event's fingerprint
FoundRecord(c) ==
    /\ c.op \in {"materialize_file_resolved", "materialize_episode_resolved"}
    /\ InLedger(c.ledger_before, CallFingerprint(c))
    /\ c.fault # <<"ledger.exists", 1>>

\* C4: when a ledger record with the event's fingerprint exists, the call
\* returns Skipped, saves no work, part, file link or ledger record, and
\* emits no event.
C4_SkippedTouchesNothing ==
    \A i \in 1..Len(calls) :
        FoundRecord(calls[i]) =>
            /\ calls[i].result.status = "ok"
            /\ calls[i].result.outcome = "Skipped"
            /\ calls[i].ncalls["anime.save"] = 0
            /\ calls[i].ncalls["episode.save"] = 0
            /\ calls[i].ncalls["episode.link_file"] = 0
            /\ calls[i].ncalls["ledger.save"] = 0
            /\ calls[i].ledger_after = calls[i].ledger_before
            /\ calls[i].animes_created = 0 /\ calls[i].episodes_created = 0
            /\ calls[i].links_added = {}
            /\ calls[i].emissions = 0

\* an episode call was skipped on a record found, for an event that names a
\* video, with no file linked
C4_Witness ==
    /\ Len(calls) >= 2
    /\ FoundRecord(calls[2])
    /\ calls[2].op = "materialize_episode_resolved"
    /\ calls[2].input.video_file_id # None
    /\ episode_files = {}
    /\ calls[2].result.outcome = "Skipped"

\* the call got past the idempotency check: the lookup succeeded and found
\* no record
PastIdempotencyCheck(c) ==
    /\ c.op \in {"materialize_file_resolved", "materialize_episode_resolved"}
    /\ c.fault # <<"ledger.exists", 1>>
    /\ ~ InLedger(c.ledger_before, CallFingerprint(c))

\* C5: every attempt that gets past the idempotency check ends with a ledger
\* record saved under the event's fingerprint, failed attempts included.
C5_EveryAttemptRecorded ==
    \A i \in 1..Len(calls) :
        PastIdempotencyCheck(calls[i]) =>
            InLedger(calls[i].ledger_after, CallFingerprint(calls[i]))

-----------------------------------------------------------------------------
(* The event bus alone: SpecBus *)

MaxHandlers == 3
MaxEmits == 2

\* the event types subscribed to and emitted in SpecBus
BusEventTypes == {"FileResolved", "AnimeCreated"}

\* the closures subscribed: a probe that records its run and a closure that
\* panics, or for FileResolved the closure of register_materialization_handlers
HandlerKinds(event_type) ==
    IF event_type = "FileResolved" THEN {"probe", "materialize_file"} ELSE {"probe", "panic"}

\* the events emitted by the callers of the bus
BusEvents ==
    {FileResolved(1, "Steins Gate", None, "1", None, "video", 65, "filename"),
     AnimeCreated(7, "Steins Gate")}

\* the number of handlers subscribed, all types together
HandlerCount(hs) == Cardinality({<<t, i>> \in EventTypes \X (1..MaxHandlers) : i <= Len(hs[t])})

InitBus ==
    /\ animes = {} /\ episodes = {} /\ episode_files = {}
    /\ files = ServiceFiles
    /\ ledger = <<>>
    /\ resolved_fingerprints = {}
    /\ handlers = NoHandlers
    /\ event_log = <<>>
    /\ next_id = 10
    /\ emitted = <<>>
    /\ trace = <<>>
    /\ calls = <<>>
    /\ threads = <<>>

\* bus.subscribe::<E, _>(closure)
Subscribe ==
    \E t \in BusEventTypes : \E kind \in HandlerKinds(t) :
        /\ HandlerCount(handlers) < MaxHandlers
        /\ Commit([subscribe(World(NoFault), t, [id |-> next_id, kind |-> kind])
                       EXCEPT !.next_id = @ + 1])
        /\ UNCHANGED <<calls, threads>>

\* bus.emit(event) by a caller outside the handlers
Emit ==
    \E event \in BusEvents :
        /\ Len(calls) < MaxEmits
        /\ \E W1 \in {emit(World(NoFault), event)} :
              /\ Commit(W1)
              /\ calls' = Append(calls,
                     CallSummary("emit", event, World(NoFault), W1,
                                 [status |-> IF W1.unwinding THEN "panicked" ELSE "returned"],
                                 0))
        /\ UNCHANGED threads

NextBus == Subscribe \/ Emit

SpecBus == InitBus /\ [][NextBus]_vars

\* the ids of the handlers in a sequence of handlers
HandlerIds(hs) == [i \in 1..Len(hs) |-> hs[i].id]

\* the handlers that ran for the n-th emission of the log, in the order they ran
RanFor(n) ==
    LET es == SelectSeq(trace, LAMBDA e : e.emission = n)
    IN [i \in 1..Len(es) |-> es[i].handler]

\* C9: for one emit call the handlers that ran by the time it returned are
\* exactly the handlers subscribed for the event's type before the call, each
\* once, in subscription order; handlers of other types do not run for it.
C9_HandlersRunOnceInSubscriptionOrder ==
    \A i \in 1..Len(calls) :
        calls[i].op = "emit" =>
            /\ RanFor(calls[i].first_emission)
                   = HandlerIds(calls[i].handlers_before[calls[i].input.type])
            /\ \A k \in 1..Len(trace) :
                   trace[k].emission = calls[i].first_emission
                       => trace[k].event_type = calls[i].input.type

\* an emit ran two handlers of its type while a handler of another type was
\* subscribed
C9_Witness ==
    \E i \in 1..Len(calls) :
        /\ calls[i].op = "emit"
        /\ Len(calls[i].handlers_before[calls[i].input.type]) >= 2
        /\ \E t \in BusEventTypes :
               t # calls[i].input.type /\ calls[i].handlers_before[t] # <<>>
        /\ Len(RanFor(calls[i].first_emission)) >= 2

\* C10: when a handler panics during an emit, the handlers subscribed after it
\* still run for that emission, the panic does not reach the caller of emit,
\* and later emits still run all their handlers.
C10_PanicIsContained ==
    \A i \in 1..Len(calls) :
        calls[i].op = "emit" =>
            /\ calls[i].result.status = "returned"
            /\ ~ calls[i].unwinding
            /\ Len(RanFor(calls[i].first_emission))
                   = Len(calls[i].handlers_before[calls[i].input.type])

\* the first emit met a panicking handler followed by another handler, and a
\* second emit of the same type ran too
C10_Witness ==
    /\ Len(calls) >= 2
    /\ calls[1].op = "emit" /\ calls[2].op = "emit"
    /\ calls[1].input.type = calls[2].input.type
    /\ \E k \in 1..Len(calls[1].handlers_before[calls[1].input.type]) :
           /\ calls[1].handlers_before[calls[1].input.type][k].kind = "panic"
           /\ k < Len(calls[1].handlers_before[calls[1].input.type])
    /\ Len(RanFor(calls[2].first_emission)) >= 2

-----------------------------------------------------------------------------
(* Resolution service: the rules *)

\* Option::Some / Option::None of a parse
Some(v) == [some |-> TRUE, v |-> v]
Nothing == [some |-> FALSE]

\* ResolutionRules::parse_anime_title on the paths of the model: the title
\* patterns tried on the file stem, then the folder name when it has at least
\* three bytes
rules_parse_anime_title(path) ==
    CASE path = "/lib/Steins Gate/[Sub] Steins Gate - 01 [1080p].mkv"
             -> Some([title |-> "Steins Gate", source |-> "filename"])
      [] path = "/lib/Steins Gate/[Sub] Steins Gate - 01 [1080p].ass"
             -> Some([title |-> "Steins Gate", source |-> "filename"])
      [] path = "/lib/Steins Gate/Steins Gate - 01.jpg"
             -> Some([title |-> "Steins Gate", source |-> "filename"])
      [] path = "/lib/Steins Gate/Episode 02.mkv"
             -> Some([title |-> "Steins Gate", source |-> "folder_name"])
      [] path = "/lib/Steins Gate/Steins Gate OVA.mkv"
             -> Some([title |-> "Steins Gate", source |-> "folder_name"])
      [] path = "/lib/Steins Gate/cover.jpg"
             -> Some([title |-> "Steins Gate", source |-> "folder_name"])
      [] path = "/lib/Steins Gate/Steins;Gate - 01.ass"
             -> Some([title |-> "Steins;Gate", source |-> "filename"])
      [] OTHER -> Nothing

\* ResolutionRules::parse_episode_number on the paths of the model: the
\* special patterns first, then the number patterns, on the file stem
rules_parse_episode_number(path) ==
    CASE path = "/lib/Steins Gate/[Sub] Steins Gate - 01 [1080p].mkv"
             -> Some([number |-> Regular(1), source |-> "filename"])
      [] path = "/lib/Steins Gate/[Sub] Steins Gate - 01 [1080p].ass"
             -> Some([number |-> Regular(1), source |-> "filename"])
      [] path = "/lib/Steins Gate/Steins Gate - 01.jpg"
             -> Some([number |-> Regular(1), source |-> "filename"])
      [] path = "/lib/Steins Gate/Episode 02.mkv"
             -> Some([number |-> Regular(2), source |-> "filename"])
      [] path = "/lib/Steins Gate/Steins Gate OVA.mkv"
             -> Some([number |-> Special("OVA"), source |-> "filename"])
      [] path = "/lib/Steins Gate/Steins;Gate - 01.ass"
             -> Some([number |-> Regular(1), source |-> "filename"])
      [] OTHER -> Nothing

\* ResolutionConfidence::THRESHOLD, in hundredths
THRESHOLD == 60

\* ResolutionConfidence::new: the score clamped to [0.0, 1.0]
clamp(score) == IF score < 0 THEN 0 ELSE IF score > 100 THEN 100 ELSE score

\* mutant of calculate_confidence: the same bonus for both filename sources
calculate_confidence_flat_bonus(anime_title, episode_number, anime_matched, episode_matched, anime_source, episode_source) ==
    clamp(50
          + (IF anime_matched THEN 20 ELSE 0)
          + (IF episode_matched THEN 15 ELSE 0)
          + (IF anime_source = "filename" THEN 10 ELSE 0)
          + (IF episode_source = "filename" THEN 10 ELSE 0)
          - (IF str_len(anime_title) < 3 THEN 30 ELSE 0)
          - (IF episode_number.kind = "special" THEN 10 ELSE 0))

\* mutant of calculate_confidence: a matched part of a special number is
\* scored down
calculate_confidence_distrusts_special_match(anime_title, episode_number, anime_matched, episode_matched, anime_source, episode_source) ==
    clamp(50
          + (IF anime_matched THEN 20 ELSE 0)
          + (IF episode_matched
             THEN IF episode_number.kind = "special" THEN -15 ELSE 15
             ELSE 0)
          + (IF anime_source = "filename" THEN 10 ELSE 0)
          + (IF episode_source = "filename" THEN 5 ELSE 0)
          - (IF str_len(anime_title) < 3 THEN 30 ELSE 0)
          - (IF episode_number.kind = "special" THEN 10 ELSE 0))

\* ResolutionRules::calculate_confidence, in hundredths
calculate_confidence(anime_title, episode_number, anime_matched, episode_matched, anime_source, episode_source) ==
    clamp(50
          + (IF anime_matched THEN 20 ELSE 0)
          + (IF episode_matched THEN 15 ELSE 0)
          + (IF anime_source = "filename" THEN 10 ELSE 0)
          + (IF episode_source = "filename" THEN 5 ELSE 0)
          - (IF str_len(anime_title) < 3 THEN 30 ELSE 0)
          - (IF episode_number.kind = "special" THEN 10 ELSE 0))

\* mutant of meets_threshold: the threshold itself does not pass
meets_threshold_strict(confidence) == confidence > THRESHOLD

\* ResolutionConfidence::meets_threshold
meets_threshold(confidence) == confidence >= THRESHOLD

\* ResolutionService::try_match_anime: the first anime of list_all whose
\* normalized main title equals the normalized title
try_match_anime(W, title) ==
    LET c == RepoCall(W, "anime.list_all")
        all == anime_list_all(W)
        hits == {i \in 1..Len(all) :
                    normalize_title(all[i].titulo_principal) = normalize_title(title)}
    IN [w |-> c.w, err |-> c.failed,
        id |-> IF c.failed \/ hits = {} THEN None ELSE all[Min(hits)].id]

\* ResolutionService::try_match_episode
try_match_episode(W, anime_id, episode_number) ==
    LET c == RepoCall(W, "episode.list_by_anime")
        eps == episode_list_by_anime(W, anime_id)
        hits == {i \in 1..Len(eps) : number_matches(eps[i].numero, episode_number)}
    IN [w |-> c.w, err |-> c.failed,
        id |-> IF c.failed \/ hits = {} THEN None ELSE eps[Min(hits)].id]

\* FileType -> FileRole
role_of(tipo) ==
    CASE tipo = "Video" -> "video"
      [] tipo = "Legenda" -> "subtitle"
      [] tipo = "Imagem" -> "image"
      [] OTHER -> "none"

\* ResolutionResult::Failure(ResolutionFailure::new(..))
Failure(file, reason) ==
    [ok |-> FALSE, file_id |-> file.id, file_path |-> file.caminho_absoluto,
     reason |-> reason]

\* mutant of Success: a file matched to a work reports the title lower-cased
Success_lowers_matched_title(file, role, anime, matched_anime_id, episode, matched_episode_id, confidence) ==
    [ok |-> TRUE, file_id |-> file.id, file_path |-> file.caminho_absoluto,
     role |-> role,
     title |-> IF matched_anime_id # None THEN to_lowercase(anime.title) ELSE anime.title,
     title_source |-> anime.source,
     matched_anime_id |-> matched_anime_id, number |-> episode.number,
     number_source |-> episode.source, matched_episode_id |-> matched_episode_id,
     confidence |-> confidence]

\* ResolutionResult::Success(ResolvedFile::new(..))
Success(file, role, anime, matched_anime_id, episode, matched_episode_id, confidence) ==
    [ok |-> TRUE, file_id |-> file.id, file_path |-> file.caminho_absoluto,
     role |-> role, title |-> anime.title, title_source |-> anime.source,
     matched_anime_id |-> matched_anime_id, number |-> episode.number,
     number_source |-> episode.source, matched_episode_id |-> matched_episode_id,
     confidence |-> confidence]

\* resolve_file_internal, steps 7-8: the threshold check and the result
resolve_scored(file, anime, matched_anime_id, episode, matched_episode_id, confidence) ==
    IF ~ meets_threshold(confidence)
    THEN Failure(file, "low_confidence")
    ELSE Success(file, role_of(file.tipo), anime, matched_anime_id, episode,
                 matched_episode_id, confidence)

\* resolve_file_internal, steps 4-8: the matches, the confidence, the result
resolve_matched(W, file, anime, episode) ==
    LET ma == try_match_anime(W, anime.title)
        me == IF ma.id # None THEN try_match_episode(ma.w, ma.id, episode.number)
              ELSE [w |-> ma.w, err |-> FALSE, id |-> None]
        confidence == calculate_confidence(anime.title, episode.number, ma.id # None,
                                           me.id # None, anime.source, episode.source)
    IN IF ma.err THEN [w |-> ma.w, err |-> TRUE, result |-> Nothing]
       ELSE IF me.err THEN [w |-> me.w, err |-> TRUE, result |-> Nothing]
       ELSE [w |-> me.w, err |-> FALSE,
             result |-> resolve_scored(file, anime, ma.id, episode, me.id, confidence)]

\* mutant of resolve_file_internal: the number is parsed before the title
resolve_file_internal_number_first(W, file) ==
    IF role_of(file.tipo) = "none"
    THEN [w |-> W, err |-> FALSE, result |-> Failure(file, "unsupported_file_type")]
    ELSE IF ~ rules_parse_episode_number(file.caminho_absoluto).some
    THEN [w |-> W, err |-> FALSE, result |-> Failure(file, "no_episode_number")]
    ELSE IF ~ rules_parse_anime_title(file.caminho_absoluto).some
    THEN [w |-> W, err |-> FALSE, result |-> Failure(file, "unparsable_filename")]
    ELSE resolve_matched(W, file, rules_parse_anime_title(file.caminho_absoluto).v,
                         rules_parse_episode_number(file.caminho_absoluto).v)

\* mutant of resolve_file_internal: the kind of the file is looked at after
\* the title and the number have been parsed
resolve_file_internal_kind_last(W, file) ==
    IF ~ rules_parse_anime_title(file.caminho_absoluto).some
    THEN [w |-> W, err |-> FALSE, result |-> Failure(file, "unparsable_filename")]
    ELSE IF ~ rules_parse_episode_number(file.caminho_absoluto).some
    THEN [w |-> W, err |-> FALSE, result |-> Failure(file, "no_episode_number")]
    ELSE IF role_of(file.tipo) = "none"
    THEN [w |-> W, err |-> FALSE, result |-> Failure(file, "unsupported_file_type")]
    ELSE resolve_matched(W, file, rules_parse_anime_title(file.caminho_absoluto).v,
                         rules_parse_episode_number(file.caminho_absoluto).v)

\* ResolutionService::resolve_file_internal
resolve_file_internal(W, file) ==
    IF role_of(file.tipo) = "none"
    THEN [w |-> W, err |-> FALSE, result |-> Failure(file, "unsupported_file_type")]
    ELSE IF ~ rules_parse_anime_title(file.caminho_absoluto).some
    THEN [w |-> W, err |-> FALSE, result |-> Failure(file, "unparsable_filename")]
    ELSE IF ~ rules_parse_episode_number(file.caminho_absoluto).some
    THEN [w |-> W, err |-> FALSE, result |-> Failure(file, "no_episode_number")]
    ELSE resolve_matched(W, file, rules_parse_anime_title(file.caminho_absoluto).v,
                         rules_parse_episode_number(file.caminho_absoluto).v)

\* ResolutionFailure::fingerprint: "fail:" and the hash of file_id and reason
failure_fingerprint(file_id, reason) == <<"fail", file_id, reason>>

\* mutant of compute_fingerprint_from_result: the fingerprint of a failure
\* leaves the reason out
compute_fingerprint_from_result_without_reason(result) ==
    IF result.ok
    THEN resolved_fingerprint(result.file_id, result.title,
                              number_to_string(result.number), result.role)
    ELSE <<"fail", result.file_id, "">>

\* ResolutionService::compute_fingerprint_from_result
compute_fingerprint_from_result(result) ==
    IF result.ok
    THEN resolved_fingerprint(result.file_id, result.title,
                              number_to_string(result.number), result.role)
    ELSE failure_fingerprint(result.file_id, result.reason)

\* mutant of is_already_resolved: the set is not consulted
is_already_resolved_never(W, fingerprint) == FALSE

\* ResolutionService::is_already_resolved (under the read lock)
is_already_resolved(W, fingerprint) == fingerprint \in W.resolved_fingerprints

\* mutant of mark_resolved: nothing is inserted
mark_resolved_dropped(W, fingerprint) == W

\* ResolutionService::mark_resolved (under the write lock)
mark_resolved(W, fingerprint) ==
    [W EXCEPT !.resolved_fingerprints = @ \cup {fingerprint}]

ResolutionFailed(file_id, file_path, reason) ==
    [type |-> "ResolutionFailed", file_id |-> file_id, file_path |-> file_path,
     reason |-> reason]

ResolutionSkipped(file_id, file_path, fingerprint, reason) ==
    [type |-> "ResolutionSkipped", file_id |-> file_id, file_path |-> file_path,
     fingerprint |-> fingerprint, reason |-> reason]

ResolutionBatchCompleted(total_files, resolved_count, failed_count, skipped_count, episodes_aggregated) ==
    [type |-> "ResolutionBatchCompleted", total_files |-> total_files,
     resolved_count |-> resolved_count, failed_count |-> failed_count,
     skipped_count |-> skipped_count, episodes_aggregated |-> episodes_aggregated]

\* ResolutionService::emit_resolution_event
\* mutant of emit_resolution_event: the service materializes a resolved file
\* itself instead of leaving it to a subscriber
emit_resolution_event_materializes(W, result) ==
    IF result.ok
    THEN The({handle_file_resolved(emit(W, event), event)
              : event \in {FileResolved(result.file_id, result.title, result.matched_anime_id,
                                        number_to_string(result.number),
                                        result.matched_episode_id, result.role,
                                        result.confidence, result.title_source)}})
    ELSE emit(W, ResolutionFailed(result.file_id, result.file_path, result.reason))

emit_resolution_event(W, result) ==
    IF result.ok
    THEN emit(W, FileResolved(result.file_id, result.title, result.matched_anime_id,
                              number_to_string(result.number), result.matched_episode_id,
                              result.role, result.confidence, result.title_source))
    ELSE emit(W, ResolutionFailed(result.file_id, result.file_path, result.reason))

-----------------------------------------------------------------------------
(* Resolution service: the calls, one repository call or lock at a step *)

\* Path::parent on the paths of the model
parent(path) ==
    CASE path \in {"/lib/Steins Gate/[Sub] Steins Gate - 01 [1080p].mkv",
                   "/lib/Steins Gate/[Sub] Steins Gate - 01 [1080p].ass",
                   "/lib/Steins Gate/Steins Gate - 01.jpg",
                   "/lib/Steins Gate/Episode 02.mkv",
                   "/lib/Steins Gate/Steins Gate OVA.mkv",
                   "/lib/Steins Gate/cover.jpg",
                   "/lib/Steins Gate/Steins;Gate - 01.ass"} -> "/lib/Steins Gate"
      [] path = "/lib/ab/cover.jpg" -> "/lib/ab"
      [] path \in {"/lib/Steins Gate", "/lib/ab", "/lib/notes.txt"} -> "/lib"
      [] OTHER -> "/"

RECURSIVE path_starts_with(_, _)
\* Path::starts_with: whole components
path_starts_with(path, base) ==
    \/ path = base
    \/ path # "/" /\ path_starts_with(parent(path), base)

\* the place of x in a sequence without repetitions
PositionIn(seq, x) == Min({i \in 1..Len(seq) : seq[i] = x})

\* FileRepository::list_unlinked: the files without a row in episode_files.
\* The query has no ORDER BY: scan is the order in which the table is read.
file_list_unlinked(W, scan) ==
    LET unlinked == {f \in W.files : \A l \in W.episode_files : l[2] # f.id}
    IN SetToSortedSeq(unlinked, [f \in unlinked |-> PositionIn(scan, f.id)])

\* the locals of one call of resolve_file (arg: the file id),
\* resolve_all_pending or resolve_directory (arg: the directory); reversed
\* says in which of its orders the aggregation map is iterated
NewResolution(op, arg, scan, reversed) ==
    [op |-> op, arg |-> arg, scan |-> scan, reversed |-> reversed,
     pc |-> IF op = "resolve_file" THEN "get" ELSE "list",
     queue |-> <<>>, file |-> File(None, "", ""), result |-> Nothing,
     fingerprint |-> <<>>, episode_aggregation |-> <<>>, pending |-> <<>>,
     order |-> <<>>, results |-> <<>>, total_files |-> 0, resolved_count |-> 0,
     failed_count |-> 0, skipped_count |-> 0, episodes_aggregated |-> 0,
     status |-> "running", outcome |-> "none", error |-> "none"]

\* `?` on an Err: the call returns the error at once
ResolutionErr(R, error) == [R EXCEPT !.pc = "done", !.status = "err", !.error = error]

\* EpisodeAggregation::new
EpisodeAggregation(key, resolved) ==
    [key |-> key, anime_title |-> resolved.title,
     matched_anime_id |-> resolved.matched_anime_id,
     episode_number |-> number_to_string(resolved.number),
     matched_episode_id |-> resolved.matched_episode_id,
     video_file_id |-> None, subtitle_file_ids |-> <<>>, image_file_ids |-> <<>>,
     max_confidence |-> 0]

\* EpisodeAggregation::add_file
add_file(a, resolved) ==
    [a EXCEPT !.video_file_id = IF resolved.role = "video" /\ @ = None
                                THEN resolved.file_id ELSE @,
              !.subtitle_file_ids = IF resolved.role = "subtitle"
                                    THEN Append(@, resolved.file_id) ELSE @,
              !.image_file_ids = IF resolved.role = "image"
                                 THEN Append(@, resolved.file_id) ELSE @,
              !.max_confidence = IF resolved.confidence > @
                                 THEN resolved.confidence ELSE @]

\* EpisodeAggregation::into_event
into_event(a) ==
    EpisodeResolved(a.anime_title, a.matched_anime_id, a.episode_number,
                    a.matched_episode_id, a.video_file_id, a.subtitle_file_ids,
                    a.image_file_ids, a.max_confidence)

\* episode_aggregation.entry(key).or_insert_with(..) and add_file; the map is
\* kept as the sequence of its entries in insertion order
aggregate(aggs, resolved) ==
    LET key == <<to_lowercase(resolved.title), number_to_string(resolved.number)>>
        at == {i \in 1..Len(aggs) : aggs[i].key = key}
    IN IF at = {} THEN Append(aggs, add_file(EpisodeAggregation(key, resolved), resolved))
       ELSE [aggs EXCEPT ![Min(at)] = add_file(@, resolved)]

\* mutant of count_result: a failure is neither counted nor kept
count_result_drops_failure(R) ==
    IF R.result.ok
    THEN [R EXCEPT !.resolved_count = @ + 1,
                   !.episode_aggregation = aggregate(@, R.result),
                   !.results = Append(@, R.result)]
    ELSE R

\* the match on the result at the end of the loop body of resolve_batch, and
\* results.push(result)
count_result(R) ==
    IF R.result.ok
    THEN [R EXCEPT !.resolved_count = @ + 1,
                   !.episode_aggregation = aggregate(@, R.result),
                   !.results = Append(@, R.result)]
    ELSE [R EXCEPT !.failed_count = @ + 1, !.results = Append(@, R.result)]

\* a sequence back to front
Reverse(seq) == [i \in 1..Len(seq) |-> seq[Len(seq) + 1 - i]]

\* the for loop of resolve_batch turns: the next file, or after the last one
\* the iteration of the aggregation map (a HashMap: in one of its orders)
next_file(R) ==
    IF R.queue # <<>>
    THEN [R EXCEPT !.file = Head(R.queue), !.queue = Tail(R.queue), !.pc = "internal"]
    ELSE [R EXCEPT !.pc = "episodes",
                   !.episodes_aggregated = Len(R.episode_aggregation),
                   !.pending = IF R.reversed THEN Reverse(R.episode_aggregation)
                               ELSE R.episode_aggregation]

\* resolve_file: file_repo.get_by_id
step_get(W, R) ==
    LET c == RepoCall(W, "file.get_by_id")
        found == file_get_by_id(W, R.arg)
    IN IF c.failed THEN [w |-> c.w, r |-> ResolutionErr(R, "RepositoryError")]
       ELSE IF found = {} THEN [w |-> c.w, r |-> ResolutionErr(R, "NotFound")]
       ELSE [w |-> c.w, r |-> [R EXCEPT !.file = The(found), !.order = <<R.arg>>,
                                        !.pc = "internal"]]

\* resolve_all_pending / resolve_directory: list_unlinked and the filter
step_list(W, R) ==
    LET c == RepoCall(W, "file.list_unlinked")
        keep(f) == /\ f.tipo \in {"Video", "Legenda", "Imagem"}
                   /\ R.op = "resolve_directory" =>
                          path_starts_with(f.caminho_absoluto, R.arg)
        batch == SelectSeq(file_list_unlinked(W, R.scan), keep)
    IN IF c.failed THEN [w |-> c.w, r |-> ResolutionErr(R, "RepositoryError")]
       ELSE [w |-> c.w,
             r |-> next_file([R EXCEPT !.queue = batch, !.total_files = Len(batch),
                                       !.order = [i \in 1..Len(batch) |-> batch[i].id]])]

\* resolve_file_internal and the fingerprint of its result
step_internal(W, R) ==
    The({IF x.err THEN [w |-> x.w, r |-> ResolutionErr(R, "RepositoryError")]
         ELSE [w |-> x.w,
               r |-> [R EXCEPT !.result = x.result,
                               !.fingerprint = compute_fingerprint_from_result(x.result),
                               !.pc = "check"]]
         : x \in {resolve_file_internal(W, R.file)}})

\* is_already_resolved, and the skip when it is
step_check(W, R) ==
    IF is_already_resolved(W, R.fingerprint)
    THEN [w |-> emit(W, ResolutionSkipped(R.file.id, R.file.caminho_absoluto,
                                          R.fingerprint, "already_resolved")),
          r |-> IF R.op = "resolve_file"
                THEN [R EXCEPT !.pc = "done", !.status = "ok", !.outcome = "Skipped"]
                ELSE next_file([R EXCEPT !.skipped_count = @ + 1])]
    ELSE [w |-> W, r |-> [R EXCEPT !.pc = "mark"]]

\* mark_resolved
step_mark(W, R) ==
    [w |-> mark_resolved(W, R.fingerprint), r |-> [R EXCEPT !.pc = "emit"]]

\* mutant of step_emit: an Err of the materialization run by the handler
\* becomes the Err of the resolution call
step_emit_propagates(W, R) ==
    The({IF \E k \in (Len(W.results) + 1)..Len(w.results) : w.results[k].status = "err"
         THEN [w |-> w, r |-> ResolutionErr(R, "RepositoryError")]
         ELSE [w |-> w,
               r |-> IF R.op = "resolve_file"
                     THEN [R EXCEPT !.pc = "done", !.status = "ok", !.outcome = "Processed"]
                     ELSE next_file(count_result(R))]
         : w \in {emit_resolution_event(W, R.result)}})

\* emit_resolution_event; the handlers run on this thread before emit returns
step_emit(W, R) ==
    [w |-> emit_resolution_event(W, R.result),
     r |-> IF R.op = "resolve_file"
           THEN [R EXCEPT !.pc = "done", !.status = "ok", !.outcome = "Processed"]
           ELSE next_file(count_result(R))]

\* mutant of step_episodes: ResolutionBatchCompleted is emitted before the
\* EpisodeResolved events
step_episodes_completed_first(W, R) ==
    LET completed == ResolutionBatchCompleted(R.total_files, R.resolved_count,
                                              R.failed_count, R.skipped_count,
                                              R.episodes_aggregated)
    IN IF R.pending # <<>>
       THEN [w |-> emit(IF Len(R.pending) = R.episodes_aggregated
                        THEN emit(W, completed) ELSE W,
                        into_event(Head(R.pending))),
             r |-> [R EXCEPT !.pending = Tail(@)]]
       ELSE [w |-> IF R.episodes_aggregated = 0 THEN emit(W, completed) ELSE W,
             r |-> [R EXCEPT !.pc = "done", !.status = "ok", !.outcome = "Batch"]]

\* the end of resolve_batch: one EpisodeResolved for each aggregation, then
\* ResolutionBatchCompleted
step_episodes(W, R) ==
    IF R.pending # <<>>
    THEN [w |-> emit(W, into_event(Head(R.pending))),
          r |-> [R EXCEPT !.pending = Tail(@)]]
    ELSE [w |-> emit(W, ResolutionBatchCompleted(R.total_files, R.resolved_count,
                                                 R.failed_count, R.skipped_count,
                                                 R.episodes_aggregated)),
          r |-> [R EXCEPT !.pc = "done", !.status = "ok", !.outcome = "Batch"]]

\* one step of resolve_file / resolve_all_pending / resolve_directory
resolve_step(W, R) ==
    CASE R.pc = "get"      -> step_get(W, R)
      [] R.pc = "list"     -> step_list(W, R)
      [] R.pc = "internal" -> step_internal(W, R)
      [] R.pc = "check"    -> step_check(W, R)
      [] R.pc = "mark"     -> step_mark(W, R)
      [] R.pc = "emit"     -> step_emit(W, R)
      [] R.pc = "episodes" -> step_episodes(W, R)

RECURSIVE run_resolution(_, _)
\* a call run to its end
run_resolution(W, R) ==
    IF R.pc = "done" THEN [w |-> W, r |-> R]
    ELSE The({run_resolution(x.w, x.r) : x \in {resolve_step(W, R)}})

\* ResolutionService::resolve_file
resolve_file(W, file_id) ==
    run_resolution(W, NewResolution("resolve_file", file_id, <<>>, FALSE))

\* ResolutionService::resolve_all_pending
resolve_all_pending(W, scan, reversed) ==
    run_resolution(W, NewResolution("resolve_all_pending", "", scan, reversed))

\* ResolutionService::resolve_directory
resolve_directory(W, directory_path, scan, reversed) ==
    run_resolution(W, NewResolution("resolve_directory", directory_path, scan, reversed))

\* register_materialization_handlers: one closure for FileResolved, one for
\* EpisodeResolved
register_materialization_handlers(hs) ==
    [hs EXCEPT !["FileResolved"] = Append(@, [id |-> 1, kind |-> "materialize_file"]),
               !["EpisodeResolved"] = Append(@, [id |-> 2, kind |-> "materialize_episode"])]

-----------------------------------------------------------------------------
(* The pipeline: the resolution service called on a file table, with the   *)
(* materialization handlers subscribed; calls run one after the other       *)

\* the files of the pipeline specifications
PipelineFiles ==
    {File(1, "/lib/Steins Gate/[Sub] Steins Gate - 01 [1080p].mkv", "Video"),
     File(2, "/lib/Steins Gate/[Sub] Steins Gate - 01 [1080p].ass", "Legenda"),
     File(3, "/lib/Steins Gate/Steins Gate - 01.jpg", "Imagem"),
     File(4, "/lib/Steins Gate/Episode 02.mkv", "Video"),
     File(5, "/lib/Steins Gate/Steins Gate OVA.mkv", "Video"),
     File(6, "/lib/Steins Gate/cover.jpg", "Imagem"),
     File(7, "/lib/ab/cover.jpg", "Imagem"),
     File(8, "/lib/notes.txt", "Outro"),
     File(20, "/lib/Steins Gate/Steins;Gate - 01.ass", "Legenda")}

\* the file tables a behaviour starts from, by the ids of their files
FileTables == {{1, 4}, {1, 20}, {1, 2, 3}, {4, 5, 6}, {3, 7, 8}}

\* the orders in which a table scan can return the files of the table
Scans(table) ==
    {scan \in [1..Cardinality(table) -> {f.id : f \in table}] :
        \A i, j \in 1..Cardinality(table) : i # j => scan[i] # scan[j]}

\* the directories resolve_directory is called with
Directories == {"/lib/Steins Gate", "/lib/ab"}

\* the repository calls that return Err in the pipeline specifications
PipelineFaults ==
    {NoFault, <<"file.list_unlinked", 1>>, <<"anime.list_all", 2>>, <<"anime.save", 1>>}

\* what a call of the resolution service returned: Ok(..) or Err
ResolutionReturn(R) ==
    [status |-> R.status, outcome |-> R.outcome, error |-> R.error,
     order |-> R.order, results |-> IF R.status = "ok" THEN R.results ELSE <<>>,
     total_files |-> R.total_files,
     resolved_count |-> R.resolved_count, failed_count |-> R.failed_count,
     skipped_count |-> R.skipped_count, episodes_aggregated |-> R.episodes_aggregated]

\* the catalogs the pipeline starts from: empty, or one work with its part 1
PipelineCatalogs ==
    {c \in Catalogs : c.animes = {} \/ (Cardinality(c.animes) = 1 /\ c.episodes # {})}

Init ==
    /\ \E c \in PipelineCatalogs : animes = c.animes /\ episodes = c.episodes
    /\ episode_files = {}
    /\ \E table \in FileTables : files = {f \in PipelineFiles : f.id \in table}
    /\ ledger = <<>>
    /\ resolved_fingerprints = {}
    /\ handlers = register_materialization_handlers(NoHandlers)
    /\ event_log = <<>>
    /\ next_id = 10
    /\ emitted = <<>>
    /\ trace = <<>>
    /\ calls = <<>>
    /\ threads = <<>>

\* one call of resolve_file; no file has id 9
ResolveFile ==
    \E file_id \in {f.id : f \in files} \cup {9}, fault \in PipelineFaults :
        /\ Len(calls) < MaxOps
        /\ \E x \in {resolve_file(World(fault), file_id)} :
               /\ Commit(x.w)
               /\ calls' = Append(calls, CallSummary("resolve_file", file_id, World(fault),
                                                     x.w, ResolutionReturn(x.r), 0))
        /\ UNCHANGED threads

\* one call of resolve_all_pending
ResolveAllPending ==
    \E scan \in Scans(files), reversed \in BOOLEAN, fault \in PipelineFaults :
        /\ Len(calls) < MaxOps
        /\ \E x \in {resolve_all_pending(World(fault), scan, reversed)} :
               /\ Commit(x.w)
               /\ calls' = Append(calls, CallSummary("resolve_all_pending", "", World(fault),
                                                     x.w, ResolutionReturn(x.r), 0))
        /\ UNCHANGED threads

\* one call of resolve_directory
ResolveDirectory ==
    \E dir \in Directories, scan \in Scans(files), reversed \in BOOLEAN, fault \in PipelineFaults :
        /\ Len(calls) < MaxOps
        /\ \E x \in {resolve_directory(World(fault), dir, scan, reversed)} :
               /\ Commit(x.w)
               /\ calls' = Append(calls, CallSummary("resolve_directory", dir, World(fault),
                                                     x.w, ResolutionReturn(x.r), 0))
        /\ UNCHANGED threads

Next == ResolveFile \/ ResolveAllPending \/ ResolveDirectory

Spec == Init /\ [][Next]_vars

\* The resolution service alone: initialize_materialization with
\* auto_materialize = false subscribes nothing, so the events of resolution
\* reach no handler.
InitRes ==
    /\ \E c \in PipelineCatalogs : animes = c.animes /\ episodes = c.episodes
    /\ episode_files = {}
    /\ \E table \in FileTables : files = {f \in PipelineFiles : f.id \in table}
    /\ ledger = <<>>
    /\ resolved_fingerprints = {}
    /\ handlers = NoHandlers
    /\ event_log = <<>>
    /\ next_id = 10
    /\ emitted = <<>>
    /\ trace = <<>>
    /\ calls = <<>>
    /\ threads = <<>>

SpecRes == InitRes /\ [][Next]_vars

\* the events emitted during the i-th call
RunEvents(i) ==
    {emitted[k] : k \in calls[i].first_emission
                        .. (calls[i].first_emission + calls[i].emissions - 1)}

\* the i-th call is a batch run that follows a first run of the same operation
\* over the same files which returned Ok, with batch runs only in between
LaterRun(i) ==
    /\ i \in 2..Len(calls)
    /\ calls[i].op \in {"resolve_all_pending", "resolve_directory"}
    /\ \A j \in 1..(i - 1) : calls[j].op = calls[i].op /\ calls[j].input = calls[i].input
    /\ calls[1].result.status = "ok"

\* the i-th call created a work, a part or a file link
Created(i) ==
    \/ calls[i].animes_created > 0
    \/ calls[i].episodes_created > 0
    \/ calls[i].links_added # {}

\* an earlier call emitted ResolutionFailed(low_confidence) for the file
FailedForLowConfidenceBefore(i, file_id) ==
    \E j \in 1..(i - 1) : \E e \in RunEvents(j) :
        e.type = "ResolutionFailed" /\ e.file_id = file_id /\ e.reason = "low_confidence"

\* C2 as stated: for a fixed set of file facts, no batch run after the first
\* creates a work, a part or a file link (taken for runs in which no
\* repository call returned Err)
C2_LaterRunCreatesNothing ==
    \A i \in 1..Len(calls) :
        (LaterRun(i) /\ \A j \in 1..i : calls[j].fault = NoFault) => ~ Created(i)

\* C2 amended: for a fixed set of file facts, a batch run after a first run
\* that returned Ok never creates a work; it emits FileResolved only for a
\* file whose resolution an earlier run reported as failed for low
\* confidence, and it creates a part or a file link only when it emits such
\* an event; a later run that emits no FileResolved creates nothing
C2_LaterRunCreatesOnlyForFormerLowConfidence ==
    \A i \in 1..Len(calls) :
        LaterRun(i) =>
            /\ calls[i].animes_created = 0
            /\ \A e \in RunEvents(i) :
                   e.type = "FileResolved" => FailedForLowConfidenceBefore(i, e.file_id)
            /\ Created(i) => \E e \in RunEvents(i) : e.type = "FileResolved"

\* a second run over files of which the first run made a work, a part and
\* links: it skips the file still unlinked and creates nothing
C2_Witness ==
    /\ Len(calls) = 2
    /\ LaterRun(2)
    /\ calls[1].animes_created = 1 /\ calls[1].episodes_created = 1
    /\ calls[1].links_added # {}
    /\ calls[2].result.status = "ok"
    /\ calls[2].result.skipped_count > 0
    /\ ~ Created(2)

-----------------------------------------------------------------------------
(* Concurrent callers of the materialization service: two threads, each    *)
(* making one call of materialize_file_resolved, their repository calls     *)
(* interleaved (the service takes no lock of its own)                       *)

Threads == {"t1", "t2"}

\* a thread that has not called yet
Idle == [pc |-> "idle"]

\* the events the two threads call with: the first two have one fingerprint
ConcurrentInputs ==
    {FileResolved(1, "Steins Gate", None, "1", None, "video", 65, "filename"),
     FileResolved(1, "STEINS GATE", None, "1", None, "video", 65, "filename"),
     FileResolved(2, "Steins Gate", None, "1", None, "subtitle", 65, "filename")}

InitMatConc ==
    /\ \E c \in Catalogs : animes = c.animes /\ episodes = c.episodes
    /\ episode_files = {}
    /\ files = ServiceFiles
    /\ ledger = <<>>
    /\ resolved_fingerprints = {}
    /\ handlers = NoHandlers
    /\ event_log = <<>>
    /\ next_id = 10
    /\ emitted = <<>>
    /\ trace = <<>>
    /\ calls = <<>>
    /\ threads = [t \in Threads |-> Idle]

\* thread t enters materialize_file_resolved
BeginMaterialize(t) ==
    /\ threads[t].pc = "idle"
    /\ \E event \in ConcurrentInputs :
           threads' = [threads EXCEPT ![t] = NewMaterialization("file", event)]
    /\ UNCHANGED <<animes, episodes, episode_files, files, ledger, resolved_fingerprints,
                   handlers, event_log, next_id, emitted, trace, calls>>

\* thread t runs the call up to and including its next repository call
StepMaterialize(t) ==
    /\ threads[t].pc \notin {"idle", "done"}
    /\ \E r \in {materialize_step(World(NoFault), threads[t])} :
           /\ Commit(r.w)
           /\ threads' = [threads EXCEPT ![t] = r.l]
    /\ UNCHANGED calls

NextMatConc == \E t \in Threads : BeginMaterialize(t) \/ StepMaterialize(t)

SpecMatConc == InitMatConc /\ [][NextMatConc]_vars

\* the threads whose call found no ledger record and returned Ok
Materialized(fp) ==
    {t \in Threads : /\ threads[t].pc = "done"
                     /\ threads[t].fingerprint = fp
                     /\ threads[t].status = "ok"
                     /\ threads[t].outcome # "Skipped"}

\* the ledger records of a fingerprint
RecordsOf(fp) == {i \in 1..Len(ledger) : ledger[i].fingerprint = fp}

\* C6: under concurrent callers nothing makes a fingerprint's materialization
\* happen once: a call that found no ledger record never becomes a skip
\* afterwards, and every call that passed the check and returned Ok has saved
\* a ledger record of its own, so that the ledger holds as many records for a
\* fingerprint as calls passed the check for it (two, when both threads did)
C6_EveryPassingCallSavesItsRecord ==
    /\ \A t \in Threads :
           threads[t].pc \notin {"idle", "check", "done"} => threads[t].status = "running"
    /\ \A t \in Threads :
           threads[t].pc = "done" =>
               Cardinality(RecordsOf(threads[t].fingerprint))
                   = Cardinality(Materialized(threads[t].fingerprint))

\* both threads were called with one fingerprint, both found no record, both
\* created a work and a part, and the ledger holds two records for it
C6_Witness ==
    /\ threads["t1"].pc = "done" /\ threads["t2"].pc = "done"
    /\ threads["t1"].fingerprint = threads["t2"].fingerprint
    /\ threads["t1"].is_new_anime /\ threads["t2"].is_new_anime
    /\ threads["t1"].is_new_episode /\ threads["t2"].is_new_episode
    /\ threads["t1"].anime_id # threads["t2"].anime_id
    /\ Cardinality(RecordsOf(threads["t1"].fingerprint)) = 2

-----------------------------------------------------------------------------
(* Concurrent callers of the resolution service: two threads, each making  *)
(* one call; a thread's step is one repository call or one acquisition of   *)
(* the lock of the fingerprint set, and an emit runs its handlers to their   *)
(* end on the emitting thread                                                *)

\* the file table of the concurrent specification: a video, an image (never
\* linked) and an image whose name has no episode number
ConcurrentFiles == {f \in PipelineFiles : f.id \in {1, 3, 6}}

\* the calls a thread makes
ConcurrentCalls ==
    {NewResolution("resolve_file", id, <<>>, FALSE) : id \in {1, 3, 6}}
        \cup {NewResolution("resolve_all_pending", "", scan, FALSE)
                : scan \in {<<1, 3, 6>>, <<6, 3, 1>>}}
        \cup {NewResolution("resolve_directory", "/lib/Steins Gate", <<3, 1, 6>>, TRUE)}

InitResConc ==
    /\ animes = {} /\ episodes = {}
    /\ episode_files = {}
    /\ files = ConcurrentFiles
    /\ ledger = <<>>
    /\ resolved_fingerprints = {}
    /\ handlers = register_materialization_handlers(NoHandlers)
    /\ event_log = <<>>
    /\ next_id = 10
    /\ emitted = <<>>
    /\ trace = <<>>
    /\ calls = <<>>
    /\ threads = [t \in Threads |-> Idle]

\* thread t enters resolve_file, resolve_all_pending or resolve_directory
BeginResolve(t) ==
    /\ threads[t].pc = "idle"
    /\ \E R \in ConcurrentCalls : threads' = [threads EXCEPT ![t] = R]
    /\ UNCHANGED <<animes, episodes, episode_files, files, ledger, resolved_fingerprints,
                   handlers, event_log, next_id, emitted, trace, calls>>

\* thread t takes its next step
StepResolve(t) ==
    /\ threads[t].pc \notin {"idle", "done"}
    /\ \E x \in {resolve_step(World(NoFault), threads[t])} :
           /\ Commit(x.w)
           /\ threads' = [threads EXCEPT ![t] = x.r]
    /\ UNCHANGED calls

NextResConc == \E t \in Threads : BeginResolve(t) \/ StepResolve(t)

SpecResConc == InitResConc /\ [][NextResConc]_vars

\* the places in the log of the FileResolved events carrying a fingerprint
FileResolvedAt(fp) ==
    {k \in 1..Len(emitted) : emitted[k].type = "FileResolved" /\ emitted[k].fingerprint = fp}

\* C7: for every fingerprint at most one FileResolved event carrying it is
\* emitted, whatever calls are made and also when two threads resolve the
\* same file at the same time
C7_FileResolvedOncePerFingerprint ==
    \A k \in 1..Len(emitted) :
        emitted[k].type = "FileResolved" =>
            Cardinality(FileResolvedAt(emitted[k].fingerprint)) <= 1

\* the events of the resolution of a file among those from place n on
ResolutionEventsFrom(log, n) ==
    {k \in n..Len(log) : log[k].type \in {"FileResolved", "ResolutionFailed",
                                          "ResolutionSkipped"}}

\* thread t takes a step from the position pc
StepsFrom(t, pc) == threads[t].pc = pc /\ threads'[t] # threads[t]

\* C8: when the fingerprint computed for a file is in the set at the check,
\* exactly one ResolutionSkipped is emitted, the set stays as it is and the
\* call goes on to its next file or returns without a FileResolved or
\* ResolutionFailed for the file; otherwise the fingerprint is first added
\* to the set and after that the event of the result is emitted
C8_SkipOrMarkThenEmit ==
    [][\A t \in Threads :
          /\ (StepsFrom(t, "check") /\ threads[t].fingerprint \in resolved_fingerprints) =>
                 /\ emitted' = Append(emitted,
                        ResolutionSkipped(threads[t].file.id, threads[t].file.caminho_absoluto,
                                          threads[t].fingerprint, "already_resolved"))
                 /\ resolved_fingerprints' = resolved_fingerprints
                 /\ threads'[t].pc \in {"internal", "episodes", "done"}
          /\ (StepsFrom(t, "check") /\ threads[t].fingerprint \notin resolved_fingerprints) =>
                 /\ emitted' = emitted
                 /\ resolved_fingerprints' = resolved_fingerprints
                 /\ threads'[t].pc = "mark"
          /\ StepsFrom(t, "mark") =>
                 /\ resolved_fingerprints' = resolved_fingerprints \cup {threads[t].fingerprint}
                 /\ emitted' = emitted
                 /\ threads'[t].pc = "emit"
          /\ StepsFrom(t, "emit") =>
                 /\ threads[t].fingerprint \in resolved_fingerprints
                 /\ resolved_fingerprints' = resolved_fingerprints
                 /\ ResolutionEventsFrom(emitted', Len(emitted) + 1) = {Len(emitted) + 1}
                 /\ emitted'[Len(emitted) + 1].type
                        = (IF threads[t].result.ok THEN "FileResolved" ELSE "ResolutionFailed")
                 /\ emitted'[Len(emitted) + 1].file_id = threads[t].file.id
      ]_vars

\* a call was skipped for a file that another call had resolved, and both
\* kinds of resolution event were emitted
C8_Witness ==
    /\ \E t \in Threads : /\ threads[t].pc = "done"
                          /\ threads[t].outcome = "Skipped" \/ threads[t].skipped_count > 0
    /\ \E k \in 1..Len(emitted) : emitted[k].type = "ResolutionSkipped"
    /\ \E k \in 1..Len(emitted) : emitted[k].type = "FileResolved"
    /\ \E k \in 1..Len(emitted) : emitted[k].type = "ResolutionFailed"

-----------------------------------------------------------------------------
(* Concurrent callers of the event bus: two threads calling emit and        *)
(* subscribe, one lock operation or one handler at a step.  emit keeps the   *)
(* read guard of `handlers` until it returns; subscribe pushes under the     *)
(* write guard.  A handler of kind "reemit" emits AnimeCreated on the same   *)
(* bus, as the closure of register_materialization_handlers does through     *)
(* execute_anime_decision.                                                   *)

\* a thread outside the bus; ncalls counts the calls it has made, returned
\* lists the log positions of its finished top-level emits
BusIdle(ncalls, returned) ==
    [pc |-> "idle", stack |-> <<>>, sub |-> <<>>, ncalls |-> ncalls, returned |-> returned]

\* the locals of one call of emit: waiting for handlers.read()
EmitFrame(event) == [event |-> event, pc |-> "read", n |-> 0, i |-> 1, handler_count |-> 0]

\* the handler lists the concurrent behaviours start from
ConcurrentHandlers ==
    {NoHandlers,
     [NoHandlers EXCEPT !["FileResolved"] = <<[id |-> 1, kind |-> "reemit"]>>],
     [NoHandlers EXCEPT !["FileResolved"] = <<[id |-> 1, kind |-> "reemit"],
                                              [id |-> 2, kind |-> "probe"]>>,
                        !["AnimeCreated"] = <<[id |-> 3, kind |-> "panic"]>>]}

\* the closures the threads subscribe
ConcurrentKinds(event_type) ==
    IF event_type = "FileResolved" THEN {"probe", "reemit"} ELSE {"probe", "panic"}

InitBusConc ==
    /\ animes = {} /\ episodes = {} /\ episode_files = {}
    /\ files = ServiceFiles
    /\ ledger = <<>>
    /\ resolved_fingerprints = {}
    /\ handlers \in ConcurrentHandlers
    /\ event_log = <<>>
    /\ next_id = 10
    /\ emitted = <<>>
    /\ trace = <<>>
    /\ calls = <<>>
    /\ threads = [t \in Threads |-> BusIdle(0, <<>>)]

\* the read guards of `handlers` thread t holds: one for each of its emits
\* that has passed handlers.read()
ReadGuards(t) ==
    Cardinality({k \in 1..Len(threads[t].stack) : threads[t].stack[k].pc \in {"log", "dispatch"}})

\* a thread is inside handlers.write(), waiting for the readers to leave
WriterWaiting == \E t \in Threads : threads[t].pc = "write"

\* the innermost emit of thread t
Top(t) == threads[t].stack[Len(threads[t].stack)]

\* thread t with the innermost emit replaced
WithTop(t, frame) ==
    [threads EXCEPT ![t].stack = [@ EXCEPT ![Len(@)] = frame]]

\* the calls of emit and subscribe made so far, all threads together
BusCalls == threads["t1"].ncalls + threads["t2"].ncalls

\* thread t calls emit
BeginEmit(t) ==
    /\ threads[t].pc = "idle" /\ BusCalls < MaxEmits
    /\ \E event \in BusEvents :
           threads' = [threads EXCEPT ![t].pc = "emit", ![t].ncalls = @ + 1,
                                      ![t].stack = <<EmitFrame(event)>>]
    /\ UNCHANGED <<animes, episodes, episode_files, files, ledger, resolved_fingerprints,
                   handlers, event_log, next_id, emitted, trace, calls>>

\* thread t calls subscribe and asks for the write lock
BeginSubscribe(t) ==
    /\ threads[t].pc = "idle" /\ BusCalls < MaxEmits
    /\ HandlerCount(handlers) < MaxHandlers
    /\ \E type \in BusEventTypes : \E kind \in ConcurrentKinds(type) :
           threads' = [threads EXCEPT ![t].pc = "write", ![t].ncalls = @ + 1,
                                      ![t].sub = <<type, kind>>]
    /\ UNCHANGED <<animes, episodes, episode_files, files, ledger, resolved_fingerprints,
                   handlers, event_log, next_id, emitted, trace, calls>>

\* subscribe: handlers.write() is granted when no read guard is held; the
\* handler is pushed and the guard dropped
SubscribeWrite(t) ==
    /\ threads[t].pc = "write"
    /\ \A u \in Threads : ReadGuards(u) = 0
    /\ Commit([subscribe(World(NoFault), threads[t].sub[1],
                         [id |-> next_id, kind |-> threads[t].sub[2]])
                   EXCEPT !.next_id = @ + 1])
    /\ threads' = [threads EXCEPT ![t] = BusIdle(threads[t].ncalls, threads[t].returned)]
    /\ UNCHANGED calls

\* emit: handlers.read() is granted, and the handlers of the type are found
EmitAcquire(t) ==
    /\ threads[t].pc = "emit"
    /\ \/ Top(t).pc = "read"
       \/ Top(t).pc = "parked" /\ ~ WriterWaiting
    /\ threads' = WithTop(t, [Top(t) EXCEPT !.pc = "log",
                     !.handler_count = Len(handlers_for(World(NoFault), Top(t).event.type))])
    /\ UNCHANGED <<animes, episodes, episode_files, files, ledger, resolved_fingerprints,
                   handlers, event_log, next_id, emitted, trace, calls>>

\* emit: handlers.read() finds a writer waiting and blocks behind it.
\* Whether a waiting writer blocks new readers is left to the platform by
\* std::sync::RwLock: both outcomes are steps of the model.
EmitPark(t) ==
    /\ threads[t].pc = "emit"
    /\ Top(t).pc = "read" /\ WriterWaiting
    /\ threads' = WithTop(t, [Top(t) EXCEPT !.pc = "parked"])
    /\ UNCHANGED <<animes, episodes, episode_files, files, ledger, resolved_fingerprints,
                   handlers, event_log, next_id, emitted, trace, calls>>

\* emit: the entry is pushed on event_log under its write lock
EmitLog(t) ==
    /\ threads[t].pc = "emit" /\ Top(t).pc = "log"
    /\ event_log' = Append(event_log, [event_type |-> Top(t).event.type,
                                       handler_count |-> Top(t).handler_count])
    /\ emitted' = Append(emitted, Top(t).event)
    /\ threads' = WithTop(t, [Top(t) EXCEPT !.pc = "dispatch", !.n = Len(event_log) + 1])
    /\ UNCHANGED <<animes, episodes, episode_files, files, ledger, resolved_fingerprints,
                   handlers, next_id, trace, calls>>

\* emit: the next handler is run under catch_unwind; a "reemit" handler
\* enters emit itself.  After the last handler the guard is dropped and emit
\* returns.
EmitDispatch(t) ==
    /\ threads[t].pc = "emit" /\ Top(t).pc = "dispatch"
    /\ IF Top(t).i > Top(t).handler_count
       THEN /\ threads' = [threads EXCEPT ![t] =
                   IF Len(threads[t].stack) = 1
                   THEN BusIdle(threads[t].ncalls, Append(threads[t].returned, Top(t).n))
                   ELSE [threads[t] EXCEPT !.stack = SubSeq(@, 1, Len(@) - 1)]]
            /\ UNCHANGED trace
       ELSE \E h \in {handler_at(handlers_for(World(NoFault), Top(t).event.type), Top(t).i)} :
            \E r \in {catch_unwind(invoke_handler(World(NoFault), h, Top(t).event, Top(t).n))} :
               /\ trace' = r.w.trace
               /\ threads' = [WithTop(t, [Top(t) EXCEPT !.i = @ + 1]) EXCEPT ![t].stack =
                      IF h.kind = "reemit"
                      THEN Append(@, EmitFrame(AnimeCreated(7, "Steins Gate")))
                      ELSE @]
    /\ UNCHANGED <<animes, episodes, episode_files, files, ledger, resolved_fingerprints,
                   handlers, event_log, next_id, emitted, calls>>

\* the steps of thread t inside a call
BusStep(t) ==
    SubscribeWrite(t) \/ EmitAcquire(t) \/ EmitPark(t) \/ EmitLog(t) \/ EmitDispatch(t)

NextBusConc == \E t \in Threads : BeginEmit(t) \/ BeginSubscribe(t) \/ BusStep(t)

\* every thread inside a call goes on whenever it can
SpecBusConc ==
    InitBusConc /\ [][NextBusConc]_vars /\ \A t \in Threads : WF_vars(BusStep(t))

\* the log positions of the emits that have returned, nested ones included:
\* those not on the stack of a thread
Returned ==
    {n \in 1..Len(event_log) :
        \A t \in Threads : \A k \in 1..Len(threads[t].stack) : threads[t].stack[k].n # n}

\* C11: with emit called from several threads while others subscribe, every
\* emit call returns; each emit has appended exactly one entry to the log
\* (the log holds one entry for each emit past its push, no more); and an
\* emit that has returned ran the handlers it found for its type, each once
C11_ConcurrentEmitReturnsAndRunsEachOnce ==
    /\ [](/\ Len(event_log) = Len(emitted)
          /\ \A n \in Returned :
                 RanFor(n) = SubSeq(HandlerIds(handlers[event_log[n].event_type]), 1,
                                    event_log[n].handler_count))
    /\ \A t \in Threads : (threads[t].pc = "emit") ~> (threads[t].pc = "idle")

-----------------------------------------------------------------------------
(* Claims on the pipeline (Spec) *)

\* the places in the log of the resolution events emitted during the i-th
\* call that the materialization handlers are subscribed to
HandedToMaterialization(i) ==
    {k \in calls[i].first_emission .. (calls[i].first_emission + calls[i].emissions - 1) :
        emitted[k].type \in {"FileResolved", "EpisodeResolved"}}

\* a materialization run by a handler during the i-th call returned Err
MaterializationFailedIn(i) ==
    \E k \in 1..Len(calls[i].results) : calls[i].results[k].status = "err"

\* C12: a materialization that fails stays inside its handler: the
\* resolution call that emitted the event returns Ok all the same, and every
\* FileResolved and EpisodeResolved emitted in the call, before or after the
\* failure and in later calls, is materialized (one result for each)
C12_MaterializationFailureStaysInHandler ==
    \A i \in 1..Len(calls) :
        /\ MaterializationFailedIn(i) => calls[i].result.status = "ok"
        /\ Len(calls[i].results) = Cardinality(HandedToMaterialization(i))

\* a batch in which the materialization of the first event failed and a
\* later event of the batch was materialized, followed by a call whose event
\* was materialized too
C12_Witness ==
    /\ Len(calls) = 2
    /\ calls[1].op = "resolve_all_pending"
    /\ calls[1].results[1].status = "err"
    /\ \E k \in 2..Len(calls[1].results) :
           calls[1].results[k].status = "ok" /\ calls[1].results[k].outcome # "Skipped"
    /\ \E k \in 1..Len(calls[2].results) : calls[2].results[k].status = "ok"

-----------------------------------------------------------------------------
(* Claims on validation before persistence (SpecMat) *)

\* the call decides to create a work from its event and the candidate work
\* has a blank title, which validate_anime rejects
CandidateWorkRejected(c) ==
    /\ PastIdempotencyCheck(c)
    /\ NoMatchingWork(c.catalog_before, c.input)
    /\ ~ validate_anime([titulo_principal |-> c.input.anime_title])

\* the events emitted during the i-th call
EmittedIn(i) ==
    {emitted[k] : k \in calls[i].first_emission ..
                        (calls[i].first_emission + calls[i].emissions - 1)}

\* C13: when validation rejects the candidate work or part, the call returns
\* an error, the save of the candidate's store is never called, the stores
\* hold no rejected work or part, and no AnimeCreated or EpisodeCreated is
\* emitted for it
C13_RejectedCandidateNeverSaved ==
    /\ \A a \in animes : validate_anime(a)
    /\ \A e \in episodes : validate_episode(e)
    /\ \A k \in 1..Len(emitted) :
           emitted[k].type = "AnimeCreated" =>
               validate_anime([titulo_principal |-> emitted[k].titulo_principal])
    /\ \A i \in 1..Len(calls) :
           CandidateWorkRejected(calls[i]) =>
               /\ calls[i].result.status = "err"
               /\ calls[i].result.error = "InvariantViolation"
               /\ calls[i].ncalls["anime.save"] = 0
               /\ calls[i].ncalls["episode.save"] = 0
               /\ calls[i].animes_created = 0 /\ calls[i].episodes_created = 0
               /\ \A ev \in EmittedIn(i) : ev.type \notin {"AnimeCreated", "EpisodeCreated"}

\* an event with a blank title was materialized on an empty catalog and
\* rejected, and the catalog is still empty
C13_Witness ==
    /\ Len(calls) >= 1
    /\ CandidateWorkRejected(calls[1])
    /\ calls[1].fault = NoFault
    /\ calls[1].result.status = "err"
    /\ animes = {}

-----------------------------------------------------------------------------
(* Claims on batch resolution (Spec) *)

\* the i-th call is a batch
IsBatch(i) == calls[i].op \in {"resolve_all_pending", "resolve_directory"}

\* the places in the log of the events emitted during the i-th call
EmissionsOf(i) ==
    calls[i].first_emission .. (calls[i].first_emission + calls[i].emissions - 1)

\* the places of the file-level events of the i-th call: one for each file
\* the loop went through
FileLevel(i) ==
    {k \in EmissionsOf(i) :
        emitted[k].type \in {"FileResolved", "ResolutionFailed", "ResolutionSkipped"}}

\* the files of the i-th call whose resolution yielded a structured failure:
\* reported as failed, or skipped on the fingerprint of their failure
YieldedFailure(i) ==
    {k \in FileLevel(i) :
        \/ emitted[k].type = "ResolutionFailed"
        \/ emitted[k].type = "ResolutionSkipped" /\ emitted[k].fingerprint[1] = "fail"}

\* the failure of the file at place k of the log is among the results the
\* i-th call returned
InResults(i, file_id) ==
    \E j \in 1..Len(calls[i].result.results) :
        /\ ~ calls[i].result.results[j].ok
        /\ calls[i].result.results[j].file_id = file_id

\* a structured failure never makes the batch return Err, and the loop goes
\* through every file of the batch
BatchGoesOn(i) ==
    /\ calls[i].result.status = "err" => calls[i].fault # NoFault
    /\ calls[i].result.status = "ok" =>
           /\ Cardinality(FileLevel(i)) = calls[i].result.total_files
           /\ {emitted[k].file_id : k \in FileLevel(i)} =
                  {calls[i].result.order[j] : j \in 1..Len(calls[i].result.order)}

\* C14 as stated: in a batch every file whose resolution yields a structured
\* failure leaves the batch running, appears in the returned results, is
\* counted in failed_count and gets a ResolutionFailed event.
C14_EveryFailureRecordedAndCounted ==
    \A i \in 1..Len(calls) :
        IsBatch(i) =>
            /\ BatchGoesOn(i)
            /\ calls[i].result.status = "ok" =>
                   /\ calls[i].result.failed_count = Cardinality(YieldedFailure(i))
                   /\ \A k \in YieldedFailure(i) :
                          /\ emitted[k].type = "ResolutionFailed"
                          /\ InResults(i, emitted[k].file_id)

\* C14 amended: in a batch a file whose resolution yields a structured
\* failure leaves the batch running; unless the fingerprint of that failure
\* is already in the resolved set (then the file is skipped and counted in
\* skipped_count), the failure appears in the returned results, is counted
\* in failed_count and gets a ResolutionFailed event.
C14_FreshFailureRecordedAndCounted ==
    \A i \in 1..Len(calls) :
        IsBatch(i) =>
            /\ BatchGoesOn(i)
            /\ calls[i].result.status = "ok" =>
                   LET fresh == {k \in YieldedFailure(i) : emitted[k].type = "ResolutionFailed"}
                       passed == {k \in FileLevel(i) : emitted[k].type = "ResolutionSkipped"}
                   IN /\ calls[i].result.failed_count = Cardinality(fresh)
                      /\ calls[i].result.skipped_count = Cardinality(passed)
                      /\ \A k \in fresh : InResults(i, emitted[k].file_id)
                      /\ \A k \in YieldedFailure(i) \ fresh :
                             /\ emitted[k].fingerprint \in calls[i].fingerprints_before
                             /\ ~ InResults(i, emitted[k].file_id)
                      /\ Cardinality({j \in 1..Len(calls[i].result.results) :
                                         ~ calls[i].result.results[j].ok})
                             = calls[i].result.failed_count

\* a batch of three files in which the second failed and the third was
\* resolved after it, then a batch that skipped the file that had failed
C14_Witness ==
    /\ Len(calls) = 2
    /\ IsBatch(1) /\ IsBatch(2)
    /\ calls[1].result.status = "ok"
    /\ calls[1].result.total_files = 3
    /\ calls[1].result.failed_count = 1
    /\ calls[1].result.resolved_count = 2
    /\ Len(calls[1].result.results) = 3
    /\ calls[1].result.results[1].ok
    /\ ~ calls[1].result.results[2].ok
    /\ calls[1].result.results[3].ok
    /\ calls[2].result.status = "ok"
    /\ calls[2].result.failed_count = 0
    /\ \E k \in YieldedFailure(2) : emitted[k].file_id = calls[1].result.results[2].file_id

\* the places in the log of the FileResolved events of the i-th call
Resolved(i) == {k \in EmissionsOf(i) : emitted[k].type = "FileResolved"}

\* the places in the log of the EpisodeResolved events of the i-th call
Aggregated(i) == {k \in EmissionsOf(i) : emitted[k].type = "EpisodeResolved"}

\* the normalized (title, part-number) key of a FileResolved or
\* EpisodeResolved event
NormalizedKey(event) == <<normalize_title(event.anime_title), event.episode_number>>

\* the (title, part-number) key with the title in lower case
LowerCaseKey(event) == <<to_lowercase(event.anime_title), event.episode_number>>

\* the ids of the files of the i-th call resolved under the key k with the
\* role, key(_) being the key of an event
FilesOf(i, key(_), k, role) ==
    {emitted[j].file_id : j \in {m \in Resolved(i) : key(emitted[m]) = k /\ emitted[m].file_role = role}}

\* the elements of a sequence
Elements(seq) == {seq[j] : j \in 1..Len(seq)}

\* the files of the i-th call that share a key produce exactly one
\* EpisodeResolved: its video is the first video resolved under the key,
\* its subtitles and images are exactly those resolved under the key
OneEventPerKey(i, key(_)) ==
    /\ \A k \in {key(emitted[j]) : j \in Resolved(i)} :
           Cardinality({j \in Aggregated(i) : key(emitted[j]) = k}) = 1
    /\ \A j \in Aggregated(i) :
           LET videos == {m \in Resolved(i) : /\ key(emitted[m]) = key(emitted[j])
                                              /\ emitted[m].file_role = "video"}
           IN /\ \E m \in Resolved(i) : key(emitted[m]) = key(emitted[j])
              /\ emitted[j].video_file_id =
                     IF videos = {} THEN None ELSE emitted[Min(videos)].file_id
              /\ Elements(emitted[j].subtitle_file_ids)
                     = FilesOf(i, key, key(emitted[j]), "subtitle")
              /\ Len(emitted[j].subtitle_file_ids)
                     = Cardinality(FilesOf(i, key, key(emitted[j]), "subtitle"))
              /\ Elements(emitted[j].image_file_ids)
                     = FilesOf(i, key, key(emitted[j]), "image")
              /\ Len(emitted[j].image_file_ids)
                     = Cardinality(FilesOf(i, key, key(emitted[j]), "image"))

\* C15: in one batch, the successfully resolved files that share the same
\* normalized (title, part-number) key produce exactly one EpisodeResolved,
\* whose primary video is the first video processed for the key and whose
\* subtitle and image lists hold exactly the subtitles and images of the key.
C15_OneEpisodeResolvedPerNormalizedKey ==
    \A i \in 1..Len(calls) :
        IsBatch(i) /\ calls[i].result.status = "ok" => OneEventPerKey(i, NormalizedKey)

\* what the loop does provide: one EpisodeResolved for each key made of the
\* title in lower case and the part number
AggregationByLowerCaseKey ==
    \A i \in 1..Len(calls) :
        IsBatch(i) /\ calls[i].result.status = "ok" => OneEventPerKey(i, LowerCaseKey)

\* the places in the log of the ResolutionBatchCompleted events of the i-th
\* call
Completed(i) == {k \in EmissionsOf(i) : emitted[k].type = "ResolutionBatchCompleted"}

\* the i-th call emitted exactly one ResolutionBatchCompleted, as the last
\* event of the call, and it carries the counts of the batch: those the call
\* returned and those of the events it emitted
CompletedOnceAtTheEnd(i) ==
    /\ Cardinality(Completed(i)) = 1
    /\ \A k \in Completed(i) :
           /\ k = calls[i].first_emission + calls[i].emissions - 1
           /\ emitted[k].total_files = Cardinality(FileLevel(i))
           /\ emitted[k].resolved_count = Cardinality(Resolved(i))
           /\ emitted[k].failed_count =
                  Cardinality({j \in FileLevel(i) : emitted[j].type = "ResolutionFailed"})
           /\ emitted[k].skipped_count =
                  Cardinality({j \in FileLevel(i) : emitted[j].type = "ResolutionSkipped"})
           /\ emitted[k].episodes_aggregated = Cardinality(Aggregated(i))
           /\ emitted[k].total_files = calls[i].result.total_files
           /\ emitted[k].resolved_count = calls[i].result.resolved_count
           /\ emitted[k].failed_count = calls[i].result.failed_count
           /\ emitted[k].skipped_count = calls[i].result.skipped_count
           /\ emitted[k].episodes_aggregated = calls[i].result.episodes_aggregated

\* C16 as stated: every batch call emits exactly one ResolutionBatchCompleted,
\* after all file-level events and all EpisodeResolved events of the batch,
\* carrying the batch's total, resolved, failed and skipped counts and the
\* number of aggregated parts.
C16_EveryBatchCompletes ==
    \A i \in 1..Len(calls) : IsBatch(i) => CompletedOnceAtTheEnd(i)

\* C16 amended: every batch call that returns Ok emits exactly one
\* ResolutionBatchCompleted, after all file-level events and all
\* EpisodeResolved events of the batch, carrying the batch's counts; a batch
\* call that returns Err emits none.
C16_EveryOkBatchCompletes ==
    \A i \in 1..Len(calls) :
        IsBatch(i) =>
            IF calls[i].result.status = "ok" THEN CompletedOnceAtTheEnd(i)
            ELSE Completed(i) = {}

\* a batch with a resolved file, a failed file and an aggregated part, then
\* a batch that skipped files; each emitted its ResolutionBatchCompleted
C16_Witness ==
    /\ Len(calls) = 2
    /\ IsBatch(1) /\ IsBatch(2)
    /\ calls[1].result.status = "ok"
    /\ calls[1].result.resolved_count >= 1
    /\ calls[1].result.failed_count >= 1
    /\ calls[1].result.episodes_aggregated >= 1
    /\ calls[2].result.status = "ok"
    /\ calls[2].result.skipped_count >= 1
    /\ Completed(1) # {} /\ Completed(2) # {}

\* the places in the log of the FileLinkedToEpisode events of the i-th call
\* for the file
LinkedEvents(i, file_id) ==
    {k \in EmissionsOf(i) :
        emitted[k].type = "FileLinkedToEpisode" /\ emitted[k].file_id = file_id}

\* the ids of the files the i-th call handed to materialization, in a
\* FileResolved event or in the lists of an EpisodeResolved event
HandedFiles(i) ==
    {emitted[k].file_id : k \in Resolved(i)}
        \cup UNION {({emitted[k].video_file_id} \ {None})
                        \cup Elements(emitted[k].subtitle_file_ids)
                        \cup Elements(emitted[k].image_file_ids) : k \in Aggregated(i)}

\* C17: linking is attempted once per file id: for each file that a
\* resolution run hands to materialization, link_file is called at most once
\* for that file and at most one FileLinkedToEpisode is emitted for it.
C17_LinkAttemptedOncePerFile ==
    \A i \in 1..Len(calls) :
        /\ \A f \in HandedFiles(i) : Cardinality(LinkedEvents(i, f)) <= 1
        /\ calls[i].ncalls["episode.link_file"] <= Cardinality(HandedFiles(i))

-----------------------------------------------------------------------------
(* Claims on the decisions of the materialization service (SpecMat) *)

\* the call got past the idempotency check and returned Ok: it chose a work
\* and a part
Materializing(c) == PastIdempotencyCheck(c) /\ c.result.status = "ok"

\* a work with the event's matched id was in the catalog before the call
WorkById(c) ==
    /\ c.input.matched_anime_id # None
    /\ \E a \in c.catalog_before.animes : a.id = c.input.matched_anime_id

\* the works of the catalog before the call whose main or alternate title
\* equals the event's title case-insensitively
WorksByTitle(c) ==
    {a.id : a \in {b \in c.catalog_before.animes : title_matches(b, c.input.anime_title)}}

\* C18: the work is chosen in this order: the matched work id if a work
\* with that id still exists; otherwise an existing work whose main or
\* alternate title equals the event title case-insensitively; otherwise a
\* newly created work. A new work is created only when the first two steps
\* find nothing.
C18_WorkDecisionOrder ==
    \A i \in 1..Len(calls) :
        /\ Materializing(calls[i]) =>
               IF WorkById(calls[i])
               THEN /\ calls[i].result.anime_id = calls[i].input.matched_anime_id
                    /\ ~ calls[i].result.is_new_anime
               ELSE IF WorksByTitle(calls[i]) # {}
               THEN /\ calls[i].result.anime_id \in WorksByTitle(calls[i])
                    /\ ~ calls[i].result.is_new_anime
               ELSE /\ calls[i].result.is_new_anime
                    /\ calls[i].animes_created = 1
                    /\ \A a \in calls[i].catalog_before.animes :
                           a.id # calls[i].result.anime_id
        /\ calls[i].animes_created <= 1
        /\ calls[i].animes_created = 1 =>
               ~ WorkById(calls[i]) /\ WorksByTitle(calls[i]) = {}

\* the matched id was used although another work carries the event's title,
\* then an alternate title was matched in another case
C18_Witness ==
    /\ Len(calls) = 2
    /\ Materializing(calls[1]) /\ Materializing(calls[2])
    /\ WorkById(calls[1])
    /\ WorksByTitle(calls[1]) # {}
    /\ calls[1].input.matched_anime_id \notin WorksByTitle(calls[1])
    /\ calls[1].result.anime_id = calls[1].input.matched_anime_id
    /\ calls[2].input.anime_title = "ab"
    /\ calls[2].result.anime_id = 3

\* a matched id that no longer exists was passed over and a work created,
\* which the next call found by its title
WorkCreatedThenFound ==
    /\ Len(calls) = 2
    /\ Materializing(calls[1]) /\ Materializing(calls[2])
    /\ calls[1].input.matched_anime_id # None
    /\ ~ WorkById(calls[1])
    /\ calls[1].result.is_new_anime
    /\ ~ WorkById(calls[2]) /\ WorksByTitle(calls[2]) # {}
    /\ calls[2].result.anime_id = calls[1].result.anime_id

\* a part with the event's matched id was in the catalog before the call
PartById(c) ==
    /\ c.input.matched_episode_id # None
    /\ \E e \in c.catalog_before.episodes : e.id = c.input.matched_episode_id

\* the parts of the chosen work in the catalog before the call with the
\* event's regular number, or its special label compared case-insensitively
PartsByNumber(c) ==
    {e.id : e \in {d \in c.catalog_before.episodes :
                      /\ d.anime_id = c.result.anime_id
                      /\ number_matches(d.numero, parse_episode_number(c.input.episode_number))}}

\* C19: the part is chosen in this order: the matched part id if a part
\* with that id still exists; otherwise an existing part of the chosen work
\* with the same regular number or the same special label compared
\* case-insensitively; otherwise a newly created part under the chosen work.
\* A new part is created only when the first two steps find nothing.
C19_PartDecisionOrder ==
    \A i \in 1..Len(calls) :
        /\ Materializing(calls[i]) =>
               /\ IF PartById(calls[i])
                  THEN /\ calls[i].result.episode_id = calls[i].input.matched_episode_id
                       /\ ~ calls[i].result.is_new_episode
                  ELSE IF PartsByNumber(calls[i]) # {}
                  THEN /\ calls[i].result.episode_id \in PartsByNumber(calls[i])
                       /\ ~ calls[i].result.is_new_episode
                  ELSE /\ calls[i].result.is_new_episode
                       /\ calls[i].episodes_created = 1
                       /\ \A e \in calls[i].catalog_before.episodes :
                              e.id # calls[i].result.episode_id
               /\ calls[i].episodes_created = 1 =>
                      ~ PartById(calls[i]) /\ PartsByNumber(calls[i]) = {}
        /\ calls[i].episodes_created <= 1
        /\ calls[i].episodes_created = 1 => ~ PartById(calls[i])
        /\ i = Len(calls) /\ Materializing(calls[i]) /\ calls[i].result.is_new_episode =>
               \E e \in episodes : /\ e.id = calls[i].result.episode_id
                                   /\ e.anime_id = calls[i].result.anime_id

\* the matched part was used although another part of the work carries the
\* event's label, then a special was found by its label in another case
C19_Witness ==
    /\ Len(calls) = 2
    /\ Materializing(calls[1]) /\ Materializing(calls[2])
    /\ PartById(calls[1])
    /\ PartsByNumber(calls[1]) # {}
    /\ calls[1].input.matched_episode_id \notin PartsByNumber(calls[1])
    /\ calls[1].result.episode_id = calls[1].input.matched_episode_id
    /\ calls[2].input.episode_number = "OVA"
    /\ ~ PartById(calls[2])
    /\ calls[2].result.episode_id = 4

\* a matched part that no longer exists was passed over and a part created
\* under the chosen work, which the next call found by its number
PartCreatedThenFound ==
    /\ Len(calls) = 2
    /\ Materializing(calls[1]) /\ Materializing(calls[2])
    /\ calls[1].input.matched_episode_id # None
    /\ ~ PartById(calls[1])
    /\ calls[1].result.is_new_episode
    /\ ~ PartById(calls[2]) /\ PartsByNumber(calls[2]) # {}
    /\ calls[2].result.episode_id = calls[1].result.episode_id

\* the outcome of the ledger record the call saved, "none" when it saved none
RecordedOutcome(c) ==
    IF Len(c.ledger_after) > Len(c.ledger_before)
    THEN c.ledger_after[Len(c.ledger_after)].outcome ELSE "none"

\* the result the call of the operation returned, or the record it saved, has
\* outcome FileLinked only if link_file linked a file to the part in the call
FileLinkedMeansLinked(c) ==
    (c.result.outcome = "FileLinked" \/ RecordedOutcome(c) = "FileLinked")
        => c.links_made >= 1

\* C20: a materialization result or ledger record has outcome FileLinked
\* only if at least one file was actually linked to the part during that call.
C20_FileLinkedOnlyIfLinked ==
    \A i \in 1..Len(calls) : FileLinkedMeansLinked(calls[i])

\* what does hold: the statement for the calls of materialize_file_resolved
FileLinkedOnlyIfLinkedForFiles ==
    \A i \in 1..Len(calls) :
        calls[i].op = "materialize_file_resolved" => FileLinkedMeansLinked(calls[i])

-----------------------------------------------------------------------------
(* Claims on outcomes and linking (SpecMat) *)

\* the outcome the taxonomy gives a call that was not skipped, from what the
\* call created and linked
OutcomeByPriority(c) ==
    IF c.animes_created >= 1 THEN {"AnimeCreated"}
    ELSE IF c.episodes_created >= 1 THEN {"EpisodeCreated"}
    ELSE IF c.links_made >= 1 THEN {"FileLinked"}
    ELSE {"AnimeMatched", "EpisodeMatched"}

\* C21: the outcome of a non-skipped materialization is AnimeCreated if a
\* work was created in this call; otherwise EpisodeCreated if a part was
\* created in this call; otherwise FileLinked if a link was made; otherwise
\* a Matched outcome.
C21_OutcomeByPriority ==
    \A i \in 1..Len(calls) :
        Materializing(calls[i]) =>
            /\ calls[i].result.outcome \in OutcomeByPriority(calls[i])
            /\ RecordedOutcome(calls[i]) = calls[i].result.outcome

\* what does hold: the statement for the calls of materialize_file_resolved
OutcomeByPriorityForFiles ==
    \A i \in 1..Len(calls) :
        Materializing(calls[i]) /\ calls[i].op = "materialize_file_resolved" =>
            /\ calls[i].result.outcome \in OutcomeByPriority(calls[i])
            /\ RecordedOutcome(calls[i]) = calls[i].result.outcome

\* the ids of the files the call's event names with a role that is linked:
\* the file of a FileResolved with role video or subtitle, the video and the
\* subtitles of an EpisodeResolved
LinkableFiles(c) ==
    IF c.op = "materialize_file_resolved"
    THEN IF c.input.file_role \in {"video", "subtitle"} THEN {c.input.file_id} ELSE {}
    ELSE ({c.input.video_file_id} \ {None}) \cup Elements(c.input.subtitle_file_ids)

\* the FileLinkedToEpisode events emitted during the i-th call
LinkEventsIn(i) == {ev \in EmittedIn(i) : ev.type = "FileLinkedToEpisode"}

\* C22: materialization links a file to a part only when its role is video
\* or subtitle; a file with role image (the image ids of an aggregated event
\* included) or any other role is never linked and produces no
\* FileLinkedToEpisode event.
C22_OnlyVideoAndSubtitleLinked ==
    \A i \in 1..Len(calls) :
        /\ \A l \in calls[i].links_added : l[2] \in LinkableFiles(calls[i])
        /\ \A ev \in LinkEventsIn(i) : ev.file_id \in LinkableFiles(calls[i])
        /\ LinkableFiles(calls[i]) = {} =>
               calls[i].ncalls["episode.link_file"] = 0 /\ calls[i].links_made = 0

\* an image event was materialized without a link, then an aggregated event
\* with a video, a subtitle and an image linked the first two only
C22_Witness ==
    /\ Len(calls) = 2
    /\ calls[1].op = "materialize_file_resolved"
    /\ calls[1].input.file_role = "image"
    /\ Materializing(calls[1])
    /\ calls[1].links_added = {} /\ LinkEventsIn(1) = {}
    /\ calls[2].op = "materialize_episode_resolved"
    /\ Materializing(calls[2])
    /\ calls[2].input.image_file_ids = <<3>>
    /\ {l[2] : l \in calls[2].links_added} = {1, 2}
    /\ {ev.file_id : ev \in LinkEventsIn(2)} = {1, 2}

\* the files the call's event names for linking that are not in the file
\* store
MissingFiles(c) == {f \in LinkableFiles(c) : \A row \in files : row.id # f}

\* the call got past the idempotency check, no repository call returned Err
\* and validation rejected nothing
Undisturbed(c) ==
    PastIdempotencyCheck(c) /\ c.fault = NoFault /\ ~ CandidateWorkRejected(c)

\* C23: if the file id to be linked is not found in the file store, linking
\* counts as not linked: no link and no FileLinkedToEpisode are produced for
\* it, and the call still completes successfully and saves its ledger record.
C23_MissingFileIsNotLinked ==
    \A i \in 1..Len(calls) :
        /\ \A f \in MissingFiles(calls[i]) :
               /\ \A l \in calls[i].links_added : l[2] # f
               /\ \A ev \in LinkEventsIn(i) : ev.file_id # f
        /\ Undisturbed(calls[i]) /\ MissingFiles(calls[i]) # {} =>
               /\ calls[i].result.status = "ok"
               /\ Len(calls[i].ledger_after) = Len(calls[i].ledger_before) + 1
               /\ InLedger(calls[i].ledger_after, CallFingerprint(calls[i]))
               /\ calls[i].links_made = Cardinality(LinkableFiles(calls[i]) \ MissingFiles(calls[i]))

\* a FileResolved for a video that is not in the file store was materialized
\* without a link, then an EpisodeResolved with a subtitle in the store and
\* one not in it linked the first only; both saved their records
C23_Witness ==
    /\ Len(calls) = 2
    /\ calls[1].op = "materialize_file_resolved"
    /\ MissingFiles(calls[1]) = {9}
    /\ calls[1].result.status = "ok"
    /\ calls[1].links_made = 0
    /\ calls[2].op = "materialize_episode_resolved"
    /\ calls[2].input.subtitle_file_ids = <<2, 9>>
    /\ calls[2].result.status = "ok"
    /\ {l[2] : l \in calls[2].links_added} = {2}
    /\ Len(ledger) = 2

\* C24: materialization never modifies or overwrites a work or part that
\* already exists: every work and part of the catalog is in the catalog
\* after the call with all its fields, what a call adds has an id no work or
\* part had before, and save is called only for what the call creates.
C24_ExistingEntitiesUntouched ==
    [][/\ animes \subseteq animes'
       /\ episodes \subseteq episodes'
       /\ \A a \in animes' \ animes : \A b \in animes \cup episodes : b.id # a.id
       /\ \A e \in episodes' \ episodes : \A b \in animes \cup episodes : b.id # e.id
       /\ files' = files
       /\ episode_files \subseteq episode_files'
       /\ Len(calls') = Len(calls) + 1 =>
              /\ calls'[Len(calls')].ncalls["anime.save"]
                     <= IF WorkById(calls'[Len(calls')])
                           \/ WorksByTitle(calls'[Len(calls')]) # {} THEN 0 ELSE 1
              /\ calls'[Len(calls')].ncalls["episode.save"]
                     <= IF PartById(calls'[Len(calls')]) THEN 0 ELSE 1]_vars

\* a call reused a work and its part and linked a file, the next found the
\* other work by its alternate title and created a part under it; the works
\* and parts of the first catalog are all there unchanged
C24_Witness ==
    /\ Len(calls) = 2
    /\ Materializing(calls[1]) /\ Materializing(calls[2])
    /\ ~ calls[1].result.is_new_anime /\ ~ calls[1].result.is_new_episode
    /\ calls[1].links_added # {}
    /\ calls[2].result.anime_id = 3
    /\ ~ calls[2].result.is_new_anime /\ calls[2].result.is_new_episode
    /\ calls[1].catalog_before.animes = animes
    /\ calls[1].catalog_before.episodes \subseteq episodes
    /\ Cardinality(episodes) = Cardinality(calls[1].catalog_before.episodes) + 1


-----------------------------------------------------------------------------
(* Claims on the resolution service alone (SpecRes) *)

\* the repository calls that write
WritingOps == {"anime.save", "episode.save", "episode.link_file", "ledger.save"}

\* C25: a call of resolve_file, resolve_all_pending or resolve_directory, with
\* no handler subscribed, calls no repository method that writes and leaves
\* the works, the parts, the links, the files and the ledger as they were,
\* whatever it returns; its set of resolved fingerprints only grows and the
\* events it emitted are appended to those emitted before.
C25_ResolutionWritesNoStore ==
    [][/\ animes' = animes
       /\ episodes' = episodes
       /\ episode_files' = episode_files
       /\ files' = files
       /\ ledger' = ledger
       /\ next_id' = next_id
       /\ handlers' = handlers
       /\ resolved_fingerprints \subseteq resolved_fingerprints'
       /\ Len(emitted) <= Len(emitted')
       /\ SubSeq(emitted', 1, Len(emitted)) = emitted
       /\ Len(calls') = Len(calls) + 1
       /\ \A op \in WritingOps : calls'[Len(calls')].ncalls[op] = 0]_vars

\* a batch over a catalog with a work and its parts resolved a file into a
\* FileResolved and an EpisodeResolved event and marked it resolved, and a
\* second call skipped the marked file
C25_Witness ==
    /\ Len(calls) = 2
    /\ IsBatch(1) /\ calls[1].result.status = "ok"
    /\ calls[1].catalog_before.animes # {} /\ calls[1].catalog_before.episodes # {}
    /\ \E k \in EmissionsOf(1) : emitted[k].type = "FileResolved"
    /\ \E k \in EmissionsOf(1) : emitted[k].type = "EpisodeResolved"
    /\ calls[1].ncalls["anime.list_all"] > 0
    /\ calls[1].fingerprints_before = {}
    /\ calls[2].fingerprints_before # {}
    /\ \E k \in EmissionsOf(2) : emitted[k].type = "ResolutionSkipped"
    /\ animes = calls[1].catalog_before.animes


-----------------------------------------------------------------------------
(* Claims on the determinism of resolution (Spec) *)

\* the places in the log of the FileResolved events
FileResolvedPlaces == {k \in 1..Len(emitted) : emitted[k].type = "FileResolved"}

\* the file fact an event is about
FactOf(event) == The({f \in files : f.id = event.file_id})

\* the result of resolving the file before the first call: over the catalog
\* the first call started from, with nothing resolved and nothing failing
ResultAtStart(file) ==
    resolve_file_internal([World(NoFault) EXCEPT
                               !.animes = calls[1].catalog_before.animes,
                               !.episodes = calls[1].catalog_before.episodes,
                               !.episode_files = calls[1].catalog_before.episode_files],
                          file).result

\* the event of that result (emit_resolution_event)
PayloadAtStart(file) ==
    The({FileResolved(r.file_id, r.title, r.matched_anime_id, number_to_string(r.number),
                      r.matched_episode_id, r.role, r.confidence, r.title_source)
         : r \in {ResultAtStart(file)}})

\* C26 as stated: every FileResolved event is the event a resolution of the
\* same file fact would have produced before any resolution or materialization
\* ran: same fingerprint (and so the same event id), title, number, role,
\* matched ids, confidence and source.
C26_PayloadFixedByFileFact ==
    \A k \in FileResolvedPlaces :
        /\ ResultAtStart(FactOf(emitted[k])).ok
        /\ emitted[k] = PayloadAtStart(FactOf(emitted[k]))

\* the title and the number the rules parse from the path of the file
ParsedTitle(file) == rules_parse_anime_title(file.caminho_absoluto).v

ParsedNumber(file) == rules_parse_episode_number(file.caminho_absoluto).v

\* C26 amended: for a fixed file fact every FileResolved event has the same
\* fingerprint (and so the same event id), title, number, role and source,
\* the ones parsed from the file fact, whatever ran before; the matched ids
\* are those of a work and a part of the catalog, and the confidence is the
\* score of the parsed title and number with those matches.
C26_PayloadFixedUpToMatches ==
    \A k \in FileResolvedPlaces :
        \E file \in files :
            /\ file.id = emitted[k].file_id
            /\ emitted[k].anime_title = ParsedTitle(file).title
            /\ emitted[k].source = ParsedTitle(file).source
            /\ emitted[k].episode_number = number_to_string(ParsedNumber(file).number)
            /\ emitted[k].file_role = role_of(file.tipo)
            /\ emitted[k].fingerprint
                   = resolved_fingerprint(file.id, ParsedTitle(file).title,
                                          number_to_string(ParsedNumber(file).number),
                                          role_of(file.tipo))
            /\ emitted[k].matched_anime_id \in {None} \cup {a.id : a \in animes}
            /\ emitted[k].matched_episode_id # None =>
                   \E e \in episodes : /\ e.id = emitted[k].matched_episode_id
                                       /\ e.anime_id = emitted[k].matched_anime_id
            /\ emitted[k].confidence
                   = calculate_confidence(ParsedTitle(file).title, ParsedNumber(file).number,
                                          emitted[k].matched_anime_id # None,
                                          emitted[k].matched_episode_id # None,
                                          ParsedTitle(file).source, ParsedNumber(file).source)

\* over a catalog that was empty at the start, a file was resolved after the
\* materialization of an earlier one had created its work: its event names
\* the work, and differs from the event of the file resolved first only there
C26_Witness ==
    /\ calls # <<>>
    /\ calls[1].catalog_before.animes = {}
    /\ \E j, k \in FileResolvedPlaces :
           /\ j < k
           /\ emitted[j].file_id # emitted[k].file_id
           /\ emitted[j].matched_anime_id = None
           /\ emitted[k].matched_anime_id # None
           /\ ResultAtStart(FactOf(emitted[k])).ok
           /\ emitted[k].confidence > PayloadAtStart(FactOf(emitted[k])).confidence
           /\ emitted[k].fingerprint = PayloadAtStart(FactOf(emitted[k])).fingerprint


-----------------------------------------------------------------------------
(* Claims on the materialization fingerprint (SpecMat) *)

\* the four values of a FileResolved event that its fingerprint is made of
FourValues(event) ==
    <<event.file_id, to_lowercase(event.anime_title), event.episode_number, event.file_role>>

\* the calls of materialize_file_resolved
FileCalls == {i \in 1..Len(calls) : calls[i].op = "materialize_file_resolved"}

\* C27: two FileResolved events that differ in file id, lower-cased title,
\* number string or role have different materialization fingerprints, and a
\* call is skipped on a record found only if an earlier call was given an
\* event with the same four values.
C27_DifferentValuesDifferentFingerprints ==
    \A i \in FileCalls :
        /\ \A j \in FileCalls :
               /\ calls[i].result.status = "ok" /\ calls[j].result.status = "ok"
               /\ FourValues(calls[i].input) # FourValues(calls[j].input)
               => CallFingerprint(calls[i]) # CallFingerprint(calls[j])
        /\ FoundRecord(calls[i]) /\ calls[i].result.outcome = "Skipped" =>
               \E j \in FileCalls :
                   j < i /\ FourValues(calls[j].input) = FourValues(calls[i].input)

\* what does hold: a call is skipped on a record found only if an earlier
\* call was given an event with the same file id and the same concatenation
\* of lower-cased title, number string and role
SkippedOnlyOnEqualConcatenation ==
    \A i \in FileCalls :
        FoundRecord(calls[i]) /\ calls[i].result.outcome = "Skipped" =>
            \E j \in FileCalls :
                /\ j < i
                /\ calls[j].input.file_id = calls[i].input.file_id
                /\ to_lowercase(calls[j].input.anime_title) \o calls[j].input.episode_number
                       \o calls[j].input.file_role
                   = to_lowercase(calls[i].input.anime_title) \o calls[i].input.episode_number
                       \o calls[i].input.file_role


-----------------------------------------------------------------------------
(* The confidence rules on drawn inputs: calculate_confidence and the       *)
(* threshold check of resolve_file_internal applied to values from bounded  *)
(* sets; calls holds the applications made                                   *)

\* titles of two bytes, of two characters in six bytes, and of eleven bytes
ConfidenceTitles == {"ab", "\\u{9032}\\u{6483}", "Steins Gate"}

ConfidenceNumbers == {Regular(1), Special("OVA")}

\* ResolutionSource
ResolutionSources == {"filename", "folder_name"}

\* scores handed to ResolutionConfidence::new, in hundredths
RawScores == {-10, 0, 59, 60, 61, 110}

InitConf ==
    /\ animes = {} /\ episodes = {}
    /\ episode_files = {}
    /\ files = {f \in PipelineFiles : f.id = 1}
    /\ ledger = <<>>
    /\ resolved_fingerprints = {}
    /\ handlers = NoHandlers
    /\ event_log = <<>>
    /\ next_id = 10
    /\ emitted = <<>>
    /\ trace = <<>>
    /\ calls = <<>>
    /\ threads = <<>>

\* one application of ResolutionRules::calculate_confidence
CalculateConfidence ==
    \E anime_title \in ConfidenceTitles, episode_number \in ConfidenceNumbers,
       anime_matched \in BOOLEAN, episode_matched \in BOOLEAN,
       anime_source \in ResolutionSources, episode_source \in ResolutionSources :
        /\ Len(calls) < MaxOps
        /\ calls' = Append(calls,
                           [op |-> "calculate_confidence",
                            input |-> [anime_title |-> anime_title,
                                       episode_number |-> episode_number,
                                       anime_matched |-> anime_matched,
                                       episode_matched |-> episode_matched,
                                       anime_source |-> anime_source,
                                       episode_source |-> episode_source],
                            result |-> calculate_confidence(anime_title, episode_number,
                                                            anime_matched, episode_matched,
                                                            anime_source, episode_source)])
        /\ UNCHANGED <<animes, episodes, episode_files, files, ledger,
                       resolved_fingerprints, handlers, event_log, next_id, emitted,
                       trace, threads>>

\* steps 7-8 of resolve_file_internal on a confidence built by
\* ResolutionConfidence::new from a drawn score
CheckThreshold ==
    \E file \in files, raw \in RawScores :
        /\ Len(calls) < MaxOps
        /\ calls' = Append(calls,
                           [op |-> "check_threshold",
                            input |-> [file_id |-> file.id, score |-> clamp(raw)],
                            result |-> resolve_scored(
                                          file,
                                          rules_parse_anime_title(file.caminho_absoluto).v, None,
                                          rules_parse_episode_number(file.caminho_absoluto).v,
                                          None, clamp(raw))])
        /\ UNCHANGED <<animes, episodes, episode_files, files, ledger,
                       resolved_fingerprints, handlers, event_log, next_id, emitted,
                       trace, threads>>

NextConf == CalculateConfidence \/ CheckThreshold

SpecConf == InitConf /\ [][NextConf]_vars

-----------------------------------------------------------------------------
(* Claims on the confidence rules (SpecConf) *)

\* the applications of calculate_confidence
Scored == {i \in 1..Len(calls) : calls[i].op = "calculate_confidence"}

\* the number of characters of a title (chars().count())
Characters(title) ==
    CASE title = "ab" -> 2
      [] title = "\\u{9032}\\u{6483}" -> 2
      [] OTHER -> str_len(title)

\* the sum of the claim for an input, in hundredths: filename_number is what
\* a number sourced from the filename adds, short whether the title counts as
\* short
ScoreOf(in, filename_number, short) ==
    50 + (IF in.anime_matched THEN 20 ELSE 0)
       + (IF in.episode_matched THEN 15 ELSE 0)
       + (IF in.anime_source = "filename" THEN 10 ELSE 0)
       + (IF in.episode_source = "filename" THEN filename_number ELSE 0)
       - (IF short THEN 30 ELSE 0)
       - (IF in.episode_number.kind = "special" THEN 10 ELSE 0)

\* C28 as stated: the score is, clamped to [0,1], 0.5 plus 0.20 for a matched
\* work, plus 0.15 for a matched part, plus 0.10 for each of title and number
\* sourced from the filename, minus 0.30 for a title shorter than 3
\* characters, minus 0.10 for a special number.
C28_ScoreWithEqualFilenameBonus ==
    \A i \in Scored :
        calls[i].result
            = clamp(ScoreOf(calls[i].input, 10, Characters(calls[i].input.anime_title) < 3))

\* C28 amended: the same sum with 0.10 for a title sourced from the filename
\* and 0.05 for a number sourced from the filename, the penalty of 0.30 being
\* for a title shorter than 3 bytes.
C28_ScoreWithSmallerNumberBonus ==
    \A i \in Scored :
        calls[i].result
            = clamp(ScoreOf(calls[i].input, 5, str_len(calls[i].input.anime_title) < 3))

\* a number sourced from the filename added 0.05 to the score of the same
\* input with the number sourced from the folder, and a title of two
\* characters in six bytes was scored without the penalty
C28_Witness ==
    /\ Len(calls) = 2
    /\ Scored = {1, 2}
    /\ calls[1].input.episode_source = "folder_name"
    /\ calls[2].input = [calls[1].input EXCEPT !.episode_source = "filename"]
    /\ Characters(calls[1].input.anime_title) < 3
    /\ str_len(calls[1].input.anime_title) >= 3
    /\ calls[1].result = 60
    /\ calls[2].result = 65


\* the applications of the threshold check
Checked == {i \in 1..Len(calls) : calls[i].op = "check_threshold"}

\* C29: a resolution whose score is exactly 0.6 yields a Success result
\* carrying that score, and a score of 0.59 yields a failure with reason
\* LowConfidence.
C29_ThresholdBoundary ==
    \A i \in Checked :
        /\ calls[i].input.score = 60 =>
               /\ calls[i].result.ok
               /\ calls[i].result.confidence = 60
               /\ calls[i].result.file_id = calls[i].input.file_id
        /\ calls[i].input.score = 59 =>
               /\ ~ calls[i].result.ok
               /\ calls[i].result.reason = "low_confidence"
               /\ calls[i].result.file_id = calls[i].input.file_id

\* the check was applied to a score of 0.6 and then to a score of 0.59
C29_Witness ==
    /\ Len(calls) = 2
    /\ Checked = {1, 2}
    /\ calls[1].input.score = 60 /\ calls[1].result.ok
    /\ calls[2].input.score = 59 /\ ~ calls[2].result.ok

\* calculate_confidence itself returned exactly 0.6, from a title sourced
\* from the filename with nothing matched
ScoredAtThreshold ==
    \E i \in Scored :
        /\ calls[i].result = THRESHOLD
        /\ ~ calls[i].input.anime_matched
        /\ calls[i].input.anime_source = "filename"


\* two applications with the same title, number and sources
SameParsedInput(i, j) ==
    /\ calls[i].input.anime_title = calls[j].input.anime_title
    /\ calls[i].input.episode_number = calls[j].input.episode_number
    /\ calls[i].input.anime_source = calls[j].input.anime_source
    /\ calls[i].input.episode_source = calls[j].input.episode_source

\* C30: for the same title, number and sources, the score computed with a
\* matched work or a matched part is never lower than the score computed
\* with no match.
C30_MatchNeverLowersScore ==
    \A i, j \in Scored :
        /\ SameParsedInput(i, j)
        /\ calls[i].input.anime_matched \/ calls[i].input.episode_matched
        /\ ~ calls[j].input.anime_matched /\ ~ calls[j].input.episode_matched
        => calls[i].result >= calls[j].result

\* a short title with a special number scored 0.10 with no match and 0.45
\* with work and part matched
C30_Witness ==
    /\ Len(calls) = 2
    /\ Scored = {1, 2}
    /\ SameParsedInput(1, 2)
    /\ str_len(calls[1].input.anime_title) < 3
    /\ calls[1].input.episode_number.kind = "special"
    /\ ~ calls[1].input.anime_matched /\ ~ calls[1].input.episode_matched
    /\ calls[2].input.anime_matched /\ calls[2].input.episode_matched
    /\ calls[1].result = 10
    /\ calls[2].result = 45


-----------------------------------------------------------------------------
(* Claims on the checks of single-file resolution (Spec) *)

\* the i-th call is resolve_file, returned Ok, and its file is of the kind
\* (the file was found: get_by_id returned it)
ResolvesFileOf(i, tipo) ==
    /\ calls[i].op = "resolve_file"
    /\ calls[i].result.status = "ok"
    /\ \E f \in files : f.id = calls[i].input /\ f.tipo = tipo

\* the ids of the files an EpisodeResolved event names
FilesNamed(event) ==
    (IF event.video_file_id = None THEN {} ELSE {event.video_file_id})
        \cup Range(event.subtitle_file_ids) \cup Range(event.image_file_ids)

\* C31: resolving a file of kind other yields the UnsupportedFileType
\* failure at once: the call makes no catalog lookup, emits the one event of
\* that failure (ResolutionFailed with the reason, or ResolutionSkipped with
\* the fingerprint of that failure when it was marked before) and hands
\* nothing to materialization; no FileResolved or EpisodeResolved event ever
\* names a file of kind other.
C31_OtherKindFailsAtOnce ==
    /\ \A i \in 1..Len(calls) :
           ResolvesFileOf(i, "Outro") =>
               /\ calls[i].ncalls["anime.list_all"] = 0
               /\ calls[i].ncalls["episode.list_by_anime"] = 0
               /\ calls[i].results = <<>>
               /\ calls[i].emissions = 1
               /\ \A k \in EmissionsOf(i) :
                      /\ emitted[k].file_id = calls[i].input
                      /\ \/ /\ emitted[k].type = "ResolutionFailed"
                            /\ emitted[k].reason = "unsupported_file_type"
                            /\ calls[i].result.outcome = "Processed"
                         \/ /\ emitted[k].type = "ResolutionSkipped"
                            /\ emitted[k].fingerprint
                                   = failure_fingerprint(calls[i].input, "unsupported_file_type")
                            /\ calls[i].result.outcome = "Skipped"
    /\ \A k \in 1..Len(emitted), f \in files :
           f.tipo = "Outro" =>
               /\ emitted[k].type = "FileResolved" => emitted[k].file_id # f.id
               /\ emitted[k].type = "EpisodeResolved" => f.id \notin FilesNamed(emitted[k])

\* with a file of kind other in the table, a batch resolved the other files
\* and a call of resolve_file for that file then reported the failure
C31_Witness ==
    /\ Len(calls) = 2
    /\ IsBatch(1) /\ calls[1].result.status = "ok"
    /\ \E k \in EmissionsOf(1) : emitted[k].type = "EpisodeResolved"
    /\ ResolvesFileOf(2, "Outro")
    /\ calls[2].result.outcome = "Processed"
    /\ \E k \in EmissionsOf(2) : emitted[k].type = "ResolutionFailed"


\* the file the i-th call, a resolve_file, was given
FileOf(i) == The({f \in files : f.id = calls[i].input})

\* the i-th call is resolve_file, returned Ok, for a file of a supported kind
ResolvesSupported(i) ==
    \E tipo \in {"Video", "Legenda", "Imagem"} : ResolvesFileOf(i, tipo)

\* the works of the catalog before the i-th call whose normalized title is
\* that of the title, and their parts with the number
WorksMatching(i, title) ==
    {a \in calls[i].catalog_before.animes :
        normalize_title(a.titulo_principal) = normalize_title(title)}

PartsMatching(i, title, number) ==
    {e \in calls[i].catalog_before.episodes :
        /\ \E a \in WorksMatching(i, title) : e.anime_id = a.id
        /\ number_matches(e.numero, number)}

\* the score of the parsed title and number against the catalog before the
\* call
ScoreBefore(i, anime, episode) ==
    calculate_confidence(anime.title, episode.number,
                         WorksMatching(i, anime.title) # {},
                         PartsMatching(i, anime.title, episode.number) # {},
                         anime.source, episode.source)

\* the first check that fails for the file of the i-th call, "none" when all
\* three pass
FirstFailure(i) ==
    IF ~ rules_parse_anime_title(FileOf(i).caminho_absoluto).some
    THEN "unparsable_filename"
    ELSE IF ~ rules_parse_episode_number(FileOf(i).caminho_absoluto).some
    THEN "no_episode_number"
    ELSE IF ScoreBefore(i, ParsedTitle(FileOf(i)), ParsedNumber(FileOf(i))) < THRESHOLD
    THEN "low_confidence"
    ELSE "none"

\* C32: resolve_file checks in a fixed order and stops at the first failure:
\* an unparsable title gives UnparsableFilename and an unparsable number
\* NoEpisodeNumber, both without a catalog lookup; after the lookup a score
\* below the threshold gives LowConfidence; FileResolved is emitted only when
\* all three checks pass.  A repeated call reports the same result by its
\* fingerprint.
C32_ChecksInOrder ==
    \A i \in 1..Len(calls) :
        ResolvesSupported(i) =>
            /\ FirstFailure(i) \in {"unparsable_filename", "no_episode_number"} =>
                   calls[i].ncalls["anime.list_all"] = 0
            /\ FirstFailure(i) \in {"low_confidence", "none"} =>
                   calls[i].ncalls["anime.list_all"] >= 1
            /\ calls[i].emissions >= 1
            /\ \A k \in EmissionsOf(i) :
                   emitted[k].type = "FileResolved" =>
                       /\ FirstFailure(i) = "none"
                       /\ emitted[k].confidence >= THRESHOLD
            /\ calls[i].result.outcome = "Processed" =>
                   IF FirstFailure(i) = "none"
                   THEN emitted[calls[i].first_emission].type = "FileResolved"
                   ELSE /\ emitted[calls[i].first_emission].type = "ResolutionFailed"
                        /\ emitted[calls[i].first_emission].reason = FirstFailure(i)
                        /\ calls[i].emissions = 1
            /\ calls[i].result.outcome = "Skipped" =>
                   /\ calls[i].emissions = 1
                   /\ emitted[calls[i].first_emission].type = "ResolutionSkipped"
                   /\ FirstFailure(i) # "none" =>
                          emitted[calls[i].first_emission].fingerprint
                              = failure_fingerprint(calls[i].input, FirstFailure(i))
                   /\ FirstFailure(i) = "none" =>
                          emitted[calls[i].first_emission].fingerprint[1] = "ok"

\* a file whose title and number both fail to parse was reported with
\* UnparsableFilename, and a file that passes the three checks was resolved
C32_Witness ==
    /\ Len(calls) = 2
    /\ ResolvesSupported(1) /\ ResolvesSupported(2)
    /\ calls[1].result.outcome = "Processed"
    /\ FirstFailure(1) = "unparsable_filename"
    /\ ~ rules_parse_episode_number(FileOf(1).caminho_absoluto).some
    /\ calls[2].result.outcome = "Processed"
    /\ FirstFailure(2) = "none"
    /\ emitted[calls[2].first_emission].type = "FileResolved"

\* a file with a title and no number was reported with NoEpisodeNumber, and
\* a file with both, scored below the threshold after the lookup, with
\* LowConfidence
NumberThenConfidenceChecked ==
    /\ Len(calls) = 2
    /\ ResolvesSupported(1) /\ ResolvesSupported(2)
    /\ calls[1].result.outcome = "Processed" /\ FirstFailure(1) = "no_episode_number"
    /\ calls[2].result.outcome = "Processed" /\ FirstFailure(2) = "low_confidence"
    /\ calls[2].ncalls["anime.list_all"] = 1


-----------------------------------------------------------------------------
(* Claims on resolving again after a failure (Spec) *)

\* the i-th call emitted FileResolved for the file and the materialization
\* its handler ran returned Err
MaterializationOfFileFailed(i, file_id) ==
    /\ \E k \in EmissionsOf(i) :
           emitted[k].type = "FileResolved" /\ emitted[k].file_id = file_id
    /\ \E k \in 1..Len(calls[i].results) :
           /\ calls[i].results[k].kind = "file"
           /\ calls[i].results[k].fingerprint[2] = file_id
           /\ calls[i].results[k].status = "err"

\* C34: when the materialization of a file's FileResolved event failed, a
\* later resolve_file of the same file that returns Ok emits FileResolved for
\* it again.
C34_ResolvedAgainAfterFailedMaterialization ==
    \A i, j \in 1..Len(calls) :
        /\ i < j
        /\ calls[j].op = "resolve_file" /\ calls[j].result.status = "ok"
        /\ MaterializationOfFileFailed(i, calls[j].input)
        => \E k \in EmissionsOf(j) :
               emitted[k].type = "FileResolved" /\ emitted[k].file_id = calls[j].input

\* what the code does instead: the later call is reported as Skipped, emits
\* ResolutionSkipped only, and runs no materialization
SkippedAfterFailedMaterialization ==
    \A i, j \in 1..Len(calls) :
        /\ i < j
        /\ calls[j].op = "resolve_file" /\ calls[j].result.status = "ok"
        /\ MaterializationOfFileFailed(i, calls[j].input)
        => /\ calls[j].result.outcome = "Skipped"
           /\ calls[j].results = <<>>
           /\ \A k \in EmissionsOf(j) : emitted[k].type = "ResolutionSkipped"

\* ------------------------------------------------------------------------
\* Claims on a batch cut short by a repository error (Spec)
\* ------------------------------------------------------------------------

\* the FileResolved event at place k of the i-th call is followed, within
\* the call, by an EpisodeResolved under its key and by the
\* ResolutionBatchCompleted
CoveredInBatch(i, k) ==
    /\ \E j \in Aggregated(i) : j > k /\ LowerCaseKey(emitted[j]) = LowerCaseKey(emitted[k])
    /\ \E j \in Completed(i) : j > k

\* C35: every FileResolved event emitted during a batch is followed, before
\* the batch call ends, by an EpisodeResolved event covering its (title,
\* number) key and by the ResolutionBatchCompleted event, also when a
\* repository error occurs while a later file of the batch is processed.
C35_FileResolvedCoveredInEveryBatch ==
    \A i \in 1..Len(calls) :
        IsBatch(i) => \A k \in Resolved(i) : CoveredInBatch(i, k)

\* what the loop does provide: the FileResolved events of a batch that
\* returns Ok are covered; a batch that returns Err leaves every one of its
\* FileResolved events without EpisodeResolved and without
\* ResolutionBatchCompleted, and their fingerprints stay marked
FileResolvedCoveredUnlessErr ==
    \A i \in 1..Len(calls) :
        IsBatch(i) =>
            IF calls[i].result.status = "ok"
            THEN \A k \in Resolved(i) : CoveredInBatch(i, k)
            ELSE /\ Aggregated(i) = {} /\ Completed(i) = {}
                 /\ \A k \in Resolved(i) :
                        \E f \in IF i = Len(calls) THEN resolved_fingerprints
                                 ELSE calls[i + 1].fingerprints_before :
                            f[1] # "fail" /\ f[2] = emitted[k].file_id

\* a batch that returned Err after it had emitted a FileResolved
BatchCutAfterFileResolved ==
    \E i \in 1..Len(calls) :
        IsBatch(i) /\ calls[i].result.status = "err" /\ Resolved(i) # {}

\* ------------------------------------------------------------------------
\* Claims on resolving a file that fails again (Spec)
\* ------------------------------------------------------------------------

\* the resolved set after the i-th call
FingerprintsAfter(i) ==
    IF i = Len(calls) THEN resolved_fingerprints ELSE calls[i + 1].fingerprints_before

\* the structured failure the resolution of the file of the i-th call, a
\* resolve_file, yields over the catalog the call started from; "none" when
\* the file is resolved
FailureOf(i) ==
    IF ResolvesFileOf(i, "Outro") THEN "unsupported_file_type" ELSE FirstFailure(i)

\* the i-th call is a resolve_file that returned Ok for a file whose
\* resolution yields a structured failure
ResolvesFailing(i) ==
    /\ calls[i].op = "resolve_file"
    /\ calls[i].result.status = "ok"
    /\ FailureOf(i) # "none"

\* C36 as stated: a file whose resolution fails with a structured reason is
\* reported as failed every time it is resolved (the failure returned,
\* ResolutionFailed emitted, counted in failed_count of a batch), never as
\* skipped, and the idempotency set holds only fingerprints of successful
\* resolutions.
C36_FailureReportedEveryTime ==
    /\ \A f \in resolved_fingerprints : f[1] = "ok"
    /\ \A i \in 1..Len(calls) :
           /\ ResolvesFailing(i) =>
                  /\ calls[i].result.outcome = "Processed"
                  /\ \A k \in EmissionsOf(i) : emitted[k].type = "ResolutionFailed"
           /\ IsBatch(i) /\ calls[i].result.status = "ok" =>
                  /\ \A k \in YieldedFailure(i) : emitted[k].type = "ResolutionFailed"
                  /\ calls[i].result.failed_count = Cardinality(YieldedFailure(i))

\* C36 amended: a file whose resolution fails with a structured reason is
\* reported as failed the first time that failure is met (the failure
\* returned, ResolutionFailed emitted, counted in failed_count of a batch)
\* and the fingerprint of the failure, made of the file id and the reason,
\* is put into the idempotency set next to those of the successful
\* resolutions; every later attempt that fails the same way is reported as
\* skipped, with ResolutionSkipped, and counts in skipped_count of a batch.
C36_FailureReportedOnceThenSkipped ==
    \A i \in 1..Len(calls) :
        /\ ResolvesFailing(i) =>
               /\ calls[i].emissions = 1
               /\ failure_fingerprint(calls[i].input, FailureOf(i)) \in FingerprintsAfter(i)
               /\ \A k \in EmissionsOf(i) :
                      IF failure_fingerprint(calls[i].input, FailureOf(i))
                             \in calls[i].fingerprints_before
                      THEN /\ calls[i].result.outcome = "Skipped"
                           /\ emitted[k].type = "ResolutionSkipped"
                           /\ emitted[k].fingerprint
                                  = failure_fingerprint(calls[i].input, FailureOf(i))
                      ELSE /\ calls[i].result.outcome = "Processed"
                           /\ emitted[k].type = "ResolutionFailed"
                           /\ emitted[k].file_id = calls[i].input
                           /\ emitted[k].reason = FailureOf(i)
        /\ IsBatch(i) =>
               /\ \A k \in YieldedFailure(i) :
                      IF emitted[k].type = "ResolutionFailed"
                      THEN /\ failure_fingerprint(emitted[k].file_id, emitted[k].reason)
                                  \notin calls[i].fingerprints_before
                           /\ failure_fingerprint(emitted[k].file_id, emitted[k].reason)
                                  \in FingerprintsAfter(i)
                           /\ calls[i].result.status = "ok" => InResults(i, emitted[k].file_id)
                      ELSE /\ emitted[k].fingerprint \in calls[i].fingerprints_before
                           /\ emitted[k].fingerprint \in FingerprintsAfter(i)
               /\ calls[i].result.status = "ok" =>
                      /\ calls[i].result.failed_count =
                             Cardinality({k \in YieldedFailure(i) :
                                             emitted[k].type = "ResolutionFailed"})
                      /\ calls[i].result.skipped_count =
                             Cardinality({k \in FileLevel(i) :
                                             emitted[k].type = "ResolutionSkipped"})

\* a file without a part number was reported as failed by resolve_file, and
\* a batch over its table then skipped it on the fingerprint of that failure
C36_Witness ==
    /\ Len(calls) = 2
    /\ ResolvesFailing(1)
    /\ FailureOf(1) = "no_episode_number"
    /\ calls[1].result.outcome = "Processed"
    /\ IsBatch(2) /\ calls[2].result.status = "ok"
    /\ calls[2].result.failed_count = 0
    /\ calls[2].result.skipped_count >= 1
    /\ \E k \in YieldedFailure(2) :
           /\ emitted[k].type = "ResolutionSkipped"
           /\ emitted[k].fingerprint = failure_fingerprint(calls[1].input, "no_episode_number")

\* ------------------------------------------------------------------------
\* Claims on materializing again after a failed call (SpecMat)
\* ------------------------------------------------------------------------

\* the works and the parts in the catalog after the i-th call
AnimesAfter(i) ==
    IF i = Len(calls) THEN animes ELSE calls[i + 1].catalog_before.animes

EpisodesAfter(i) ==
    IF i = Len(calls) THEN episodes ELSE calls[i + 1].catalog_before.episodes

\* the i-th call failed after it had created a work, and the j-th call,
\* later, was given the same event
RepeatsFailedCreation(i, j) ==
    /\ i < j
    /\ calls[i].op = calls[j].op
    /\ calls[i].input = calls[j].input
    /\ calls[i].result.status = "err"
    /\ calls[i].animes_created = 1

\* C38: if a materialization call fails after it has created the work (the
\* link or the ledger save fails, so no ledger record is written),
\* materializing the same event again reuses that work and part and creates
\* no second work with the same title and no second part with the same
\* number.
C38_RepeatReusesWorkAndPart ==
    \A i, j \in 1..Len(calls) :
        RepeatsFailedCreation(i, j) =>
            /\ calls[i].ledger_after = calls[i].ledger_before
            /\ calls[j].animes_created = 0
            /\ calls[i].episodes_created = 1 => calls[j].episodes_created = 0
            /\ calls[j].result.status = "ok" /\ calls[j].result.outcome = "Skipped" =>
                   \E m \in (i + 1)..(j - 1) :
                       /\ calls[m].op = calls[j].op /\ calls[m].result.status = "ok"
                       /\ CallFingerprint(calls[m]) = CallFingerprint(calls[j])
            /\ calls[j].result.status = "ok" /\ calls[j].result.outcome # "Skipped" =>
                   /\ ~ calls[j].result.is_new_anime
                   /\ \E a \in AnimesAfter(i) \ calls[i].catalog_before.animes :
                          calls[j].result.anime_id = a.id
                   /\ calls[i].episodes_created = 1 =>
                          /\ ~ calls[j].result.is_new_episode
                          /\ \E e \in EpisodesAfter(i) \ calls[i].catalog_before.episodes :
                                 calls[j].result.episode_id = e.id
                   /\ Cardinality({a \in animes : title_matches(a, calls[j].input.anime_title)})
                          = 1

\* the link failed after the work and the part had been created, and the
\* same FileResolved event was then materialized with both reused
C38_Witness ==
    /\ Len(calls) = 2
    /\ RepeatsFailedCreation(1, 2)
    /\ calls[1].op = "materialize_file_resolved"
    /\ calls[1].fault = <<"episode.link_file", 1>>
    /\ calls[1].episodes_created = 1
    /\ calls[2].result.status = "ok"
    /\ calls[2].result.outcome = "FileLinked"
    /\ calls[2].animes_created = 0 /\ calls[2].episodes_created = 0
    /\ Cardinality(animes) = 1 /\ Cardinality(episodes) = 1

-----------------------------------------------------------------------------
(* Replayed events: the materialization service called with events whose   *)
(* matched ids were taken from an earlier catalog (SpecReplay)              *)

\* FileResolved events of a replay: work 7 is in no catalog, part 2 is the
\* part 1 of work 1 where the catalog has parts
ReplayedFileEvents ==
    {FileResolved(1, "ab", 7, "1", 2, "video", 100, "filename"),
     FileResolved(1, "Steins Gate", 1, "1", 2, "video", 100, "filename"),
     FileResolved(2, "Steins Gate", 7, "1", 2, "subtitle", 100, "filename")}

\* EpisodeResolved events of a replay
ReplayedEpisodeEvents ==
    {EpisodeResolved("ab", 7, "1", 2, 1, <<2>>, <<>>, 100),
     EpisodeResolved("Steins Gate", 1, "1", 2, 1, <<>>, <<>>, 100)}

\* one call of materialize_file_resolved with a replayed event
ReplayFileResolved ==
    \E event \in ReplayedFileEvents, fault \in MaterializationFaults :
        /\ Len(calls) < MaxOps
        /\ \E r \in {materialize_file_resolved(World(fault), event)} :
              /\ Commit(r.w)
              /\ calls' = Append(calls,
                     CallSummary("materialize_file_resolved", event, World(fault), r.w,
                                 MaterializationResult(r.l), r.l.links_made))
        /\ UNCHANGED threads

\* one call of materialize_episode_resolved with a replayed event
ReplayEpisodeResolved ==
    \E event \in ReplayedEpisodeEvents, fault \in MaterializationFaults :
        /\ Len(calls) < MaxOps
        /\ \E r \in {materialize_episode_resolved(World(fault), event)} :
              /\ Commit(r.w)
              /\ calls' = Append(calls,
                     CallSummary("materialize_episode_resolved", event, World(fault), r.w,
                                 MaterializationResult(r.l), r.l.links_made))
        /\ UNCHANGED threads

NextReplay == ReplayFileResolved \/ ReplayEpisodeResolved

SpecReplay == InitMat /\ [][NextReplay]_vars

\* the i-th call returned a result that names a work and a part
NamesWorkAndPart(i) ==
    /\ calls[i].result.status = "ok"
    /\ calls[i].result.outcome # "Skipped"

\* the part with the id belongs to the work with the id, in the catalog
\* after the i-th call
PartOfWork(i, episode_id, anime_id) ==
    \E e \in EpisodesAfter(i) :
        /\ e.id = episode_id /\ e.anime_id = anime_id
        /\ \E a \in AnimesAfter(i) : a.id = anime_id

PartBelongsUnlessMatchedPartReused ==
    \A i \in 1..Len(calls) :
        NamesWorkAndPart(i) =>
            \/ PartOfWork(i, calls[i].result.episode_id, calls[i].result.anime_id)
            \/ /\ calls[i].result.episode_id = calls[i].input.matched_episode_id
               /\ calls[i].result.anime_id # calls[i].input.matched_anime_id
               /\ \E e \in calls[i].catalog_before.episodes :
                      e.id = calls[i].input.matched_episode_id
               /\ ~ \E a \in calls[i].catalog_before.animes :
                        a.id = calls[i].input.matched_anime_id

\* a replayed event whose matched work and part both still exist was
\* materialized onto them
MatchedPartReusedWithItsWork ==
    \E i \in 1..Len(calls) :
        /\ NamesWorkAndPart(i)
        /\ calls[i].result.anime_id = calls[i].input.matched_anime_id
        /\ calls[i].result.episode_id = calls[i].input.matched_episode_id
        /\ PartOfWork(i, calls[i].result.episode_id, calls[i].result.anime_id)

-----------------------------------------------------------------------------
(* Claims on handlers that call the bus (SpecBusConc) *)

\* thread t is inside a call of emit or subscribe
InsideBus(t) == threads[t].pc # "idle"

\* no handler subscribed calls emit itself
NoHandlerEmits ==
    \A type \in EventTypes : \A k \in 1..Len(handlers[type]) : handlers[type][k].kind # "reemit"

\* C37: emit always returns: a handler that itself calls emit or subscribe
\* on the same bus during dispatch, possibly while another thread is calling
\* subscribe, never blocks the bus for ever; every call of emit and of
\* subscribe comes back.
C37_BusNeverBlocksForEver ==
    \A t \in Threads : InsideBus(t) ~> ~ InsideBus(t)

\* what the locks do provide: as long as no handler emits, every call of
\* emit and of subscribe comes back
BusReturnsWithoutNestedEmit ==
    ([]NoHandlerEmits) => \A t \in Threads : InsideBus(t) ~> ~ InsideBus(t)

\* a thread parked in the read() of a nested emit while the other thread
\* waits in write(): neither can take a step
NestedEmitBehindWriter ==
    \E t \in Threads :
        /\ threads[t].pc = "emit"
        /\ Len(threads[t].stack) = 2
        /\ Top(t).pc = "parked"
        /\ ReadGuards(t) = 1
        /\ WriterWaiting

-----------------------------------------------------------------------------
(* Playback: the playback service, the observer task that polls the player  *)
(* and the handlers the episode service subscribes to the playback events.   *)
(* `threads` holds the session of the observer task and the player; one      *)
(* iteration of the task's loop is one step.                                  *)

\* the most calls of one behaviour of the playback specification
MaxPlaybackOps == 5

\* playback_service.rs: RESUME_THRESHOLD_SECONDS
RESUME_THRESHOLD_SECONDS == 300

\* ObserverConfig::default
poll_interval_ms == 2000
min_progress_delta == 5
completion_threshold == 90

PlaybackStarted(episode_id) == [type |-> "PlaybackStarted", episode_id |-> episode_id]

PlaybackProgressUpdated(episode_id, progress_seconds) ==
    [type |-> "PlaybackProgressUpdated", episode_id |-> episode_id,
     progress_seconds |-> progress_seconds]

PlaybackStopped(episode_id, final_progress_seconds) ==
    [type |-> "PlaybackStopped", episode_id |-> episode_id,
     final_progress_seconds |-> final_progress_seconds]

PlaybackFinished(episode_id, duration_seconds) ==
    [type |-> "PlaybackFinished", episode_id |-> episode_id,
     duration_seconds |-> duration_seconds]

EpisodeProgressUpdated(episode_id, progress_seconds, duration_seconds) ==
    [type |-> "EpisodeProgressUpdated", episode_id |-> episode_id,
     progress_seconds |-> progress_seconds, duration_seconds |-> duration_seconds]

EpisodeCompleted(episode_id, anime_id) ==
    [type |-> "EpisodeCompleted", episode_id |-> episode_id, anime_id |-> anime_id]

\* Episode::update_progress: Err when the progress exceeds the known
\* duration, or is lower than the stored one and not 0
update_progress(episode, progresso) ==
    IF episode.duracao_esperada # None /\ progresso > episode.duracao_esperada
    THEN [ok |-> FALSE, episode |-> episode]
    ELSE IF progresso < episode.progresso_atual /\ progresso # 0
    THEN [ok |-> FALSE, episode |-> episode]
    ELSE [ok |-> TRUE,
          episode |-> [episode EXCEPT
              !.progresso_atual = progresso,
              !.estado = IF progresso = 0 THEN "NaoVisto"
                         ELSE IF episode.duracao_esperada # None
                                 /\ progresso >= (episode.duracao_esperada * 90) \div 100
                         THEN "Concluido"
                         ELSE "EmProgresso"]]

\* Episode::reset_progress
reset_progress(episode) ==
    [episode EXCEPT !.progresso_atual = 0, !.estado = "NaoVisto"]

\* no session: current_session is None
NoSession ==
    [active |-> FALSE, episode_id |-> None, last_reported_position |-> 0,
     duration |-> None, completed_emitted |-> FALSE]

\* ObservationSession, as start_observing builds it
ObservationSession(episode_id, initial_position, duration) ==
    [active |-> TRUE, episode_id |-> episode_id,
     last_reported_position |-> initial_position,
     duration |-> duration, completed_emitted |-> FALSE]

\* the player: process is MpvClient.process holding a live child (what
\* MpvClient::is_running answers), pipe is an mpv serving the IPC pipe,
\* position is its time-pos
Player(process, pipe, position) ==
    [process |-> process, pipe |-> pipe, position |-> position]

\* the duration of the video file, in seconds
VideoLength == 1440

\* the state of playback: the parts, the log of events, the session of the
\* observer and the player
PlaybackWorld ==
    [episodes |-> episodes, emitted |-> emitted,
     session |-> threads.session, mpv |-> threads.mpv]

\* the closure EpisodeService::register_event_handlers subscribes to
\* PlaybackStarted
on_playback_started(P, event) ==
    [P EXCEPT !.episodes =
        {IF e.id = event.episode_id THEN [e EXCEPT !.estado = "EmProgresso"] ELSE e
            : e \in P.episodes}]

\* the closure subscribed to PlaybackProgressUpdated: on Ok of
\* update_progress the part is saved, EpisodeProgressUpdated is emitted and,
\* for a completed part, EpisodeCompleted
on_playback_progress(P, event) ==
    IF ~ \E e \in P.episodes : e.id = event.episode_id THEN P
    ELSE The({
        IF ~ u.ok THEN P
        ELSE [P EXCEPT
                 !.episodes = {e \in @ : e.id # u.episode.id} \cup {u.episode},
                 !.emitted = @ \o
                     <<EpisodeProgressUpdated(u.episode.id, u.episode.progresso_atual,
                                              u.episode.duracao_esperada)>>
                     \o (IF u.episode.estado = "Concluido"
                         THEN <<EpisodeCompleted(u.episode.id, u.episode.anime_id)>>
                         ELSE <<>>)]
        : u \in {update_progress(The({e \in P.episodes : e.id = event.episode_id}),
                                 event.progress_seconds)}})

\* EventBus::emit with the handlers of the episode service subscribed: the
\* event is logged, then its handler runs
playback_emit(P, event) ==
    The({IF event.type = "PlaybackStarted" THEN on_playback_started(L, event)
         ELSE IF event.type = "PlaybackProgressUpdated" THEN on_playback_progress(L, event)
         ELSE L
         : L \in {[P EXCEPT !.emitted = Append(@, event)]}})

\* PlaybackObserver::stop_observing
stop_observing(P) == [P EXCEPT !.session = NoSession]

\* PlaybackObserver::start_observing
start_observing(P, episode_id, initial_position, duration) ==
    [stop_observing(P) EXCEPT
        !.session = ObservationSession(episode_id, initial_position, duration)]

\* PlaybackService::report_progress
report_progress(P, episode_id, progress_seconds) ==
    playback_emit(P, PlaybackProgressUpdated(episode_id, progress_seconds))

\* PlaybackService::start_playback: Err for a part or a file that is not
\* found and for a file that is not a video; mpv is spawned when the client
\* holds none, the file is loaded, the player seeks to the saved progress
\* when that is at least the threshold, the observer is started and
\* PlaybackStarted emitted
start_playback(P, episode_id, file_id) ==
    IF ~ \E e \in P.episodes : e.id = episode_id THEN [p |-> P, status |-> "err"]
    ELSE IF ~ \E f \in files : f.id = file_id THEN [p |-> P, status |-> "err"]
    ELSE IF The({f \in files : f.id = file_id}).tipo # "Video" THEN [p |-> P, status |-> "err"]
    ELSE The({
        [p |-> playback_emit(
                   start_observing(
                       [P EXCEPT !.mpv = Player(P.mpv.process, TRUE,
                                     IF e.progresso_atual >= RESUME_THRESHOLD_SECONDS
                                     THEN e.progresso_atual ELSE 0)],
                       episode_id,
                       IF e.progresso_atual >= RESUME_THRESHOLD_SECONDS
                       THEN e.progresso_atual ELSE 0,
                       e.duracao_esperada),
                   PlaybackStarted(episode_id)),
         status |-> "ok"]
        : e \in {The({x \in P.episodes : x.id = episode_id})}})

\* PlaybackService::seek_to: Err when the pipe cannot be opened; the player
\* seeks and the position is reported
seek_to(P, episode_id, position_seconds) ==
    IF ~ P.mpv.pipe THEN [p |-> P, status |-> "err"]
    ELSE [p |-> report_progress([P EXCEPT !.mpv.position = position_seconds],
                                episode_id, position_seconds),
          status |-> "ok"]

\* PlaybackService::stop_playback: the position is reported when the client
\* can read it, the player quits, the observer is stopped
stop_playback(P, episode_id) ==
    [p |-> The({[stop_observing(R) EXCEPT !.mpv = Player(FALSE, FALSE, 0)]
                : R \in {IF P.mpv.process /\ P.mpv.pipe
                         THEN report_progress(P, episode_id, P.mpv.position)
                         ELSE P}}),
     status |-> "ok"]

\* one iteration of the loop of spawn_observer_task, the player at the
\* position: PlaybackStopped and the end of the session when the client
\* holds no running player; else PlaybackFinished once the position is at
\* the completion threshold of the duration, PlaybackProgressUpdated when
\* the position is min_progress_delta or more away from
\* last_reported_position, and the session written back with the position
observe(P, position) ==
    IF ~ P.mpv.process
    THEN stop_observing(playback_emit(P, PlaybackStopped(P.session.episode_id,
                                                         P.session.last_reported_position)))
    ELSE LET known == IF P.session.duration = None THEN VideoLength
                      ELSE P.session.duration
             completed == P.session.completed_emitted
                              \/ position * 100 >= completion_threshold * known
             delta == IF position > P.session.last_reported_position
                      THEN position - P.session.last_reported_position
                      ELSE P.session.last_reported_position - position
             F == IF completed /\ ~ P.session.completed_emitted
                  THEN playback_emit(P, PlaybackFinished(P.session.episode_id, known))
                  ELSE P
             R == IF delta >= min_progress_delta
                  THEN playback_emit(F, PlaybackProgressUpdated(P.session.episode_id, position))
                  ELSE F
         IN [R EXCEPT !.session = [@ EXCEPT !.last_reported_position = position,
                                            !.duration = known,
                                            !.completed_emitted = completed]]

\* the stores after a step of playback
CommitPlayback(P) ==
    /\ episodes' = P.episodes
    /\ emitted' = P.emitted
    /\ threads' = [session |-> P.session, mpv |-> P.mpv]
    /\ UNCHANGED <<animes, episode_files, files, ledger, resolved_fingerprints, handlers,
                   event_log, next_id, trace>>

\* what a step of playback did: the stored progress and the session before
\* it, the position of the player a poll read, the events it emitted
PlaybackSummary(op, input, P0, P1, status, position) ==
    [op |-> op, input |-> input, status |-> status, position |-> position,
     progress_before |-> {<<e.id, e.progresso_atual>> : e \in P0.episodes},
     session_before |-> P0.session,
     observed |-> op = "poll" /\ P0.mpv.process,
     first_emission |-> Len(P0.emitted) + 1,
     emissions |-> Len(P1.emitted) - Len(P0.emitted)]

\* the stored progress and the known duration playback starts from
SavedProgress == {0, 200, 400}
KnownDurations == {None, VideoLength}

\* the positions the user seeks to, and how far the player moves during one
\* sleep of the observer: 2 seconds at normal speed, 6 after a jump
SeekPositions == {0, 1300}
Advances == {poll_interval_ms \div 1000, 6}

InitPlay ==
    /\ animes = {Anime(1, "Steins Gate", {})}
    /\ \E p \in SavedProgress, d \in KnownDurations :
           episodes = {[Episode(2, 1, Regular(1)) EXCEPT
                           !.duracao_esperada = d, !.progresso_atual = p,
                           !.estado = IF p = 0 THEN "NaoVisto" ELSE "EmProgresso"]}
    /\ episode_files = {<<2, 1>>}
    /\ files = ServiceFiles
    /\ ledger = <<>>
    /\ resolved_fingerprints = {}
    /\ handlers = NoHandlers
    /\ event_log = <<>>
    /\ next_id = 10
    /\ emitted = <<>>
    /\ trace = <<>>
    /\ calls = <<>>
    /\ threads = [session |-> NoSession, mpv |-> Player(FALSE, FALSE, 0)]

\* MpvClient::launch by the owner of the client, no player running: the
\* client holds the process of a player that serves the pipe
Launch ==
    /\ Len(calls) < MaxPlaybackOps
    /\ ~ threads.mpv.process /\ ~ threads.mpv.pipe
    /\ CommitPlayback([PlaybackWorld EXCEPT !.mpv = Player(TRUE, TRUE, 0)])
    /\ calls' = Append(calls, PlaybackSummary("launch", None, PlaybackWorld, PlaybackWorld,
                                              "ok", 0))

\* a call of start_playback for part 2 with the video or the subtitle
StartPlayback ==
    \E file_id \in {1, 2} :
        /\ Len(calls) < MaxPlaybackOps
        /\ \E x \in {start_playback(PlaybackWorld, 2, file_id)} :
               /\ CommitPlayback(x.p)
               /\ calls' = Append(calls, PlaybackSummary("start_playback", file_id,
                                      PlaybackWorld, x.p, x.status, x.p.mpv.position))

\* a call of seek_to
SeekTo ==
    \E position \in SeekPositions :
        /\ Len(calls) < MaxPlaybackOps
        /\ \E x \in {seek_to(PlaybackWorld, 2, position)} :
               /\ CommitPlayback(x.p)
               /\ calls' = Append(calls, PlaybackSummary("seek_to", position, PlaybackWorld,
                                                         x.p, x.status, position))

\* a call of stop_playback
StopPlayback ==
    /\ Len(calls) < MaxPlaybackOps
    /\ \E x \in {stop_playback(PlaybackWorld, 2)} :
           /\ CommitPlayback(x.p)
           /\ calls' = Append(calls, PlaybackSummary("stop_playback", 2, PlaybackWorld,
                                                     x.p, x.status, threads.mpv.position))

\* a call of EpisodeService::reset_progress: the reset the user asks for
ResetProgress ==
    /\ Len(calls) < MaxPlaybackOps
    /\ \E e \in episodes : e.progresso_atual > 0
    /\ CommitPlayback([PlaybackWorld EXCEPT !.episodes = {reset_progress(e) : e \in @}])
    /\ calls' = Append(calls, PlaybackSummary("reset_progress", 2, PlaybackWorld,
                                              PlaybackWorld, "ok", 0))

\* the observer task sleeps poll_interval_ms while the player moves on, then
\* runs one iteration of its loop
Poll ==
    \E advance \in Advances :
        /\ Len(calls) < MaxPlaybackOps
        /\ threads.session.active
        /\ \E position \in {IF threads.mpv.pipe THEN threads.mpv.position + advance
                            ELSE threads.mpv.position} :
           \E P \in {[PlaybackWorld EXCEPT !.mpv.position = position]} :
           \E R \in {observe(P, position)} :
               /\ CommitPlayback(R)
               /\ calls' = Append(calls, PlaybackSummary("poll", advance, P, R, "ok", position))

NextPlay == Launch \/ StartPlayback \/ SeekTo \/ StopPlayback \/ ResetProgress \/ Poll

SpecPlay == InitPlay /\ [][NextPlay]_vars

-----------------------------------------------------------------------------
(* Claims on playback (SpecPlay) *)

\* the stored progress of the part with the id, among the parts
ProgressOf(parts, id) == The({e \in parts : e.id = id}).progresso_atual

\* the step lowers the stored progress of the part with the id
LowersProgress(id) ==
    /\ \E e \in episodes : e.id = id
    /\ ProgressOf(episodes', id) < ProgressOf(episodes, id)

\* the step is the call of the operation
StepIs(op) == Len(calls') = Len(calls) + 1 /\ calls'[Len(calls')].op = op

\* C33: the stored progress of a part never decreases automatically:
\* playback events (start, progress report, seek, stop) never lower it, and
\* it goes to a lower value only through an explicit reset requested by the
\* user.
C33_ProgressLoweredOnlyByReset ==
    [][\A id \in {2} : LowersProgress(id) => StepIs("reset_progress")]_vars

\* what update_progress does provide: playback lowers the stored progress
\* only to 0, on a PlaybackProgressUpdated that reports the position 0
ProgressLoweredOnlyToZero ==
    [][\A id \in {2} :
          LowersProgress(id) /\ ~ StepIs("reset_progress") =>
              /\ ProgressOf(episodes', id) = 0
              /\ \E k \in (Len(emitted) + 1)..Len(emitted') :
                     /\ emitted'[k].type = "PlaybackProgressUpdated"
                     /\ emitted'[k].progress_seconds = 0]_vars

\* a seek to 0 was reported while progress was stored, and the stored
\* progress is 0 after it
ProgressLostOnSeek ==
    /\ Len(calls) >= 2
    /\ calls[Len(calls)].op = "seek_to" /\ calls[Len(calls)].input = 0
    /\ calls[Len(calls)].status = "ok"
    /\ <<2, 400>> \in calls[Len(calls)].progress_before
    /\ \A e \in episodes : e.progresso_atual = 0 /\ e.estado = "NaoVisto"

\* playback was started below the resume threshold and stopped at once:
\* the position 0 was reported and the stored progress is 0 after it
ProgressLostOnStop ==
    /\ Len(calls) >= 2
    /\ calls[Len(calls) - 1].op = "start_playback" /\ calls[Len(calls) - 1].status = "ok"
    /\ calls[Len(calls)].op = "stop_playback"
    /\ <<2, 200>> \in calls[Len(calls)].progress_before
    /\ \A e \in episodes : e.progresso_atual = 0 /\ e.estado = "NaoVisto"

\* the events emitted during the i-th step of playback
PlaybackEmissions(i) ==
    calls[i].first_emission .. (calls[i].first_emission + calls[i].emissions - 1)

\* the start_playback that opened the session the i-th step, a poll, ran in
SessionStart(i) ==
    CHOOSE j \in 1..(i - 1) :
        /\ calls[j].op = "start_playback" /\ calls[j].status = "ok"
        /\ \A m \in (j + 1)..(i - 1) :
               ~ (calls[m].op = "start_playback" /\ calls[m].status = "ok")

\* the last position for which a progress event was emitted in the session
\* before the i-th step: that of the latest PlaybackProgressUpdated since the
\* session started, the initial position of the session when there is none
LastEmittedPosition(i) ==
    LET since == {k \in calls[SessionStart(i)].first_emission .. (calls[i].first_emission - 1) :
                     emitted[k].type = "PlaybackProgressUpdated"}
    IN IF since = {} THEN calls[SessionStart(i)].position
       ELSE emitted[CHOOSE k \in since : \A m \in since : m <= k].progress_seconds

\* the distance between two positions
Distance(a, b) == IF a > b THEN a - b ELSE b - a

\* the i-th step is a poll that read the position of a running player
Observes(i) == calls[i].op = "poll" /\ calls[i].observed

\* from the start of its session to the i-th step the player was left to
\* play: every step was a poll that found the position further on
PlayedOnTo(i) ==
    /\ \E j \in 1..(i - 1) : calls[j].op = "start_playback" /\ calls[j].status = "ok"
    /\ \A m \in (SessionStart(i) + 1)..i :
           Observes(m) /\ calls[m].position > calls[m].session_before.last_reported_position

\* the i-th step emitted PlaybackProgressUpdated for the position it read
EmittedProgress(i) ==
    \E k \in PlaybackEmissions(i) :
        /\ emitted[k].type = "PlaybackProgressUpdated"
        /\ emitted[k].progress_seconds = calls[i].position

\* C40: while a playback session is observed and the player position keeps
\* advancing, a PlaybackProgressUpdated event is emitted once the position
\* has moved at least min_progress_delta seconds away from the last position
\* for which a progress event was emitted; with the default 2-second poll
\* and 5-second delta, continuous playback produces progress events.
C40_ProgressEmittedOnceDeltaReached ==
    \A i \in 1..Len(calls) :
        /\ PlayedOnTo(i)
        /\ Distance(calls[i].position, LastEmittedPosition(i)) >= min_progress_delta
        => EmittedProgress(i)

\* what the loop does provide: a poll emits PlaybackProgressUpdated exactly
\* when the position is min_progress_delta or more away from the position
\* the poll before it read (the initial position for the first poll)
ProgressEmittedOnJumpBetweenPolls ==
    \A i \in 1..Len(calls) :
        Observes(i) =>
            (EmittedProgress(i) <=>
                Distance(calls[i].position, calls[i].session_before.last_reported_position)
                    >= min_progress_delta)

\* three polls in a row at normal speed: the player moved 6 seconds on from
\* the initial position of the session and no progress event was emitted
ContinuousPlaybackUnreported ==
    /\ Len(calls) = 5
    /\ calls[2].op = "start_playback" /\ calls[2].status = "ok"
    /\ \A i \in 3..5 : Observes(i) /\ calls[i].input = poll_interval_ms \div 1000
    /\ calls[5].position = calls[2].position + 6
    /\ \A k \in calls[3].first_emission..Len(emitted) :
           emitted[k].type # "PlaybackProgressUpdated"

====
